---- MODULE Spec2Model ----
(***************************************************************************)
(* SignalForge: the signal scanning and idea aggregation engine.           *)
(*                                                                         *)
(* The module models app/scanning.py, app/x_scanning.py,                   *)
(* app/bsky_scanning.py, app/mastodon_scanning.py (the source adapters and *)
(* the classification helpers), app/db.py (connections and transactions)   *)
(* and app/main.py (run_scan_for_org, the scheduler tick run_due_scans,    *)
(* the manual trigger run_scan and the readers scan_detail / dashboard).   *)
(*                                                                         *)
(* A text is a sequence of space-separated tokens.  A regular expression   *)
(* of PATTERN_GROUPS is the set of token sequences it matches; the texts   *)
(* of the model are built from tokens none of which properly contains a    *)
(* pattern token, so "matches anywhere in the text" is "some window of     *)
(* the text's tokens is one of the pattern's token sequences".             *)
(***************************************************************************)
EXTENDS Integers, Sequences, FiniteSets, TLC

(***************************************************************************)
(* Bounds of the model.                                                    *)
(***************************************************************************)
\* items the providers hand out in one behaviour, over all requests
MaxFetched == 2
\* hours the clock may reach
MaxTime == 30
\* process crashes in one behaviour
MaxCrashes == 1
\* scans committed in one behaviour
MaxScans == 3
\* ticks of the scheduler in a behaviour
MaxTicks == 3
\* words in front of a text idea_key is called with
MaxWords == 3

(***************************************************************************)
(* Generic helpers.                                                        *)
(***************************************************************************)
NULL == "NULL"

Range(s) == {s[i] : i \in 1..Len(s)}

Min(a, b) == IF a <= b THEN a ELSE b

Max(a, b) == IF a >= b THEN a ELSE b

RECURSIVE SumOver(_, _)
\* sum of f[x] over the finite set S
SumOver(f, S) ==
    IF S = {} THEN 0
    ELSE LET x == CHOOSE y \in S : TRUE
         IN  f[x] + SumOver(f, S \ {x})

RECURSIVE Flatten(_)
\* concatenation of a sequence of sequences
Flatten(ss) == IF ss = <<>> THEN <<>> ELSE Head(ss) \o Flatten(Tail(ss))

RECURSIVE SeqsUpTo(_, _)
\* all sequences over S of length at most n
SeqsUpTo(S, n) ==
    IF n = 0 THEN {<<>>}
    ELSE LET shorter == SeqsUpTo(S, n - 1)
         IN  shorter \cup {Append(s, x) : s \in {t \in shorter : Len(t) = n - 1}, x \in S}

(***************************************************************************)
(* app/scanning.py: PATTERN_GROUPS, compile_patterns, match_groups.        *)
(*                                                                         *)
(* The patterns are raw strings that spell the word boundary as "\\b": in  *)
(* a raw string that is a backslash escape followed by the letter b, so    *)
(* the compiled expression asks for a literal backslash and a literal "b"  *)
(* on both ends of every phrase.  The token "\\bis" below is the four      *)
(* characters backslash, b, i, s.                                          *)
(***************************************************************************)
\* a pattern is a sequence of slots; a slot is a set of alternative tokens,
\* and an optional slot may be skipped
Slot(alts) == [alts |-> alts, opt |-> FALSE]

OptSlot(alts) == [alts |-> alts, opt |-> TRUE]

Article == {"an", "a"}

ProductEnd == {"app\\b", "tool\\b", "software\\b", "service\\b"}

PATTERN_GROUPS ==
    [app_request |->
        << <<Slot({"\\bis"}), Slot({"there"}), Slot(Article), Slot({"app\\b"})>>,
           <<Slot({"\\bis"}), Slot({"there"}), Slot(Article), Slot({"tool\\b", "software\\b", "service\\b"})>>,
           <<Slot({"\\bany"}), Slot({"app"}), Slot({"for\\b", "that\\b"})>>,
           <<Slot({"\\bdoes"}), Slot({"anyone"}), Slot({"know"}), OptSlot(Article), Slot(ProductEnd)>>,
           <<Slot({"\\blooking"}), Slot({"for"}), OptSlot(Article), Slot(ProductEnd)>>,
           <<Slot({"\\bneed"}), OptSlot(Article), Slot(ProductEnd)>>,
           <<Slot({"\\bapp"}), Slot({"that"}), Slot({"can\\b", "does\\b", "will\\b"})>>,
           <<Slot({"\\balternative"}), Slot({"to\\b"})>> >>,
     pain |->
        << <<Slot({"\\bfrustrated\\b", "\\bfrustrating\\b"})>>,
           <<Slot({"\\bthis"}), Slot({"sucks\\b"})>>,
           <<Slot({"\\bthis"}), Slot({"is"}), Slot({"awful\\b", "terrible\\b"})>>,
           <<Slot({"\\bwhy"}), Slot({"is"}), Slot({"there", "this"}), Slot({"no\\b"})>>,
           <<Slot({"\\bwish"}), Slot({"there"}), Slot({"was\\b", "were\\b"})>>,
           <<Slot({"\\bhate"}), Slot({"having\\b", "to\\b", "that\\b"})>>,
           <<Slot({"\\bpain"}), Slot({"point\\b"})>>,
           <<Slot({"\\bproblem"}), Slot({"is\\b"})>>,
           <<Slot({"\\bstruggling"}), Slot({"with\\b"})>> >>,
     pay |->
        << <<Slot({"\\bi'd", "\\bid"}), Slot({"pay\\b"})>>,
           <<Slot({"\\bi"}), Slot({"would"}), Slot({"pay\\b"})>>,
           <<Slot({"\\bwilling"}), Slot({"to"}), Slot({"pay\\b"})>>,
           <<Slot({"\\bpay"}), Slot({"for"}), OptSlot(Article), Slot(ProductEnd)>>,
           <<Slot({"\\bhappily"}), Slot({"pay\\b"})>> >>]

\* the order in which PATTERN_GROUPS, and so compiled.items(), lists the groups
GroupOrder == <<"app_request", "pain", "pay">>

RECURSIVE Expand(_)
\* the token sequences one pattern matches
Expand(pattern) ==
    IF pattern = <<>> THEN {<<>>}
    ELSE LET rest == Expand(Tail(pattern))
             here == {<<a>> \o r : a \in Head(pattern).alts, r \in rest}
         IN  IF Head(pattern).opt THEN here \cup rest ELSE here

\* re.compile("|".join(patterns), re.IGNORECASE): the union of the patterns
compile_patterns ==
    [name \in DOMAIN PATTERN_GROUPS |->
        UNION {Expand(PATTERN_GROUPS[name][i]) : i \in 1..Len(PATTERN_GROUPS[name])}]

\* str.lower() on the tokens of the model: the capitalised ones are listed
Lower(tok) ==
    CASE tok = "I'd" -> "i'd"
      [] tok = "\\bI'd" -> "\\bi'd"
      [] tok = "Budget" -> "budget"
      [] tok = "Uncategorized" -> "uncategorized"
      [] OTHER -> tok

LowerText(text) == [i \in 1..Len(text) |-> Lower(text[i])]

\* rx.search(text): some window of the text is one of the sequences
Search(rx, text) ==
    LET low == LowerText(text)
    IN  \E i \in 1..Len(low) : \E j \in i..Len(low) : SubSeq(low, i, j) \in rx

match_groups(text, compiled) ==
    SelectSeq(GroupOrder, LAMBDA name : Search(compiled[name], text))

(***************************************************************************)
(* app/scanning.py: STOPWORDS, idea_key.                                   *)
(***************************************************************************)
STOPWORDS ==
    {"this", "that", "with", "from", "they", "them", "then", "than", "there",
     "here", "have", "has", "had", "your", "yours", "what", "which", "when",
     "where", "would", "could", "should", "their", "about", "into", "just",
     "like", "really", "very", "much", "some", "more", "most", "also", "only",
     "does", "doing", "done", "need", "want", "looking", "app", "apps",
     "tool", "tools", "software", "service", "services", "help", "anyone",
     "know", "find", "use", "using", "used", "make", "making", "made"}

\* the maximal runs of the letters a-z in a lower-cased token; a token of
\* letters only is its own single run
AlphaRuns(tok) ==
    CASE tok = "\\bis" -> <<"bis">>
      [] tok = "app\\b" -> <<"app", "b">>
      [] tok = "\\bi'd" -> <<"bi", "d">>
      [] tok = "i'd" -> <<"i", "d">>
      [] tok = "pay\\b" -> <<"pay", "b">>
      [] tok = "\\bpain" -> <<"bpain">>
      [] tok = "point\\b" -> <<"point", "b">>
      [] tok = "\\bneed" -> <<"bneed">>
      [] tok = "tool\\b" -> <<"tool", "b">>
      [] OTHER -> <<tok>>

\* re.findall(r"[a-z]{4,}", text.lower()): a run of n letters yields its
\* leading blocks of at least four letters; every run of the model's tokens
\* is short enough to be one block
FindWords(text) ==
    LET low == LowerText(text)
        runs == Flatten([i \in 1..Len(low) |-> AlphaRuns(low[i])])
    IN  SelectSeq(runs, LAMBDA w : Len(w) >= 4)

Count(words, w) == Cardinality({i \in 1..Len(words) : words[i] = w})

FirstIndex(words, w) == CHOOSE i \in 1..Len(words) : words[i] = w /\ \A j \in 1..(i - 1) : words[j] # w

\* a variant that lists equal counts in the order of their last occurrence
most_common_last(words, n) ==
    LET distinct == Range(words)
        LastIndex(w) == CHOOSE i \in 1..Len(words) : words[i] = w /\ \A j \in (i + 1)..Len(words) : words[j] # w
        Before(v, w) == \/ Count(words, v) > Count(words, w)
                        \/ /\ Count(words, v) = Count(words, w)
                           /\ LastIndex(v) < LastIndex(w)
        Rank(w) == Cardinality({v \in distinct : Before(v, w)}) + 1
    IN  [i \in 1..Min(n, Cardinality(distinct)) |-> CHOOSE w \in distinct : Rank(w) = i]

\* Counter(words).most_common(n): by descending count, equal counts in the
\* order of first occurrence (the sort is stable over insertion order)
most_common(words, n) ==
    LET distinct == Range(words)
        Before(v, w) == \/ Count(words, v) > Count(words, w)
                        \/ /\ Count(words, v) = Count(words, w)
                           /\ FirstIndex(words, v) < FirstIndex(words, w)
        Rank(w) == Cardinality({v \in distinct : Before(v, w)}) + 1
    IN  [i \in 1..Min(n, Cardinality(distinct)) |-> CHOOSE w \in distinct : Rank(w) = i]

RECURSIVE JoinWith(_, _)
\* sep.join(parts)
JoinWith(sep, parts) ==
    IF parts = <<>> THEN ""
    ELSE IF Len(parts) = 1 THEN parts[1]
    ELSE parts[1] \o sep \o JoinWith(sep, Tail(parts))

TopWords == 6

idea_key(text) ==
    LET words == SelectSeq(FindWords(text), LAMBDA w : w \notin STOPWORDS)
    IN  IF words = <<>> THEN "uncategorized"
        ELSE JoinWith(" ", most_common(words, TopWords))

(***************************************************************************)
(* What the providers return.  An item is a text with a creation time that *)
(* is inside the lookback window (fresh) or older; the provider's id of an *)
(* item is the number of items handed out before it, plus one.             *)
(***************************************************************************)
tPay == <<"\\bI'd", "pay\\b", "budget", "tracker">>

tApp == <<"Budget", "tracker", "\\bis", "there", "an", "app\\b">>

tPain == <<"\\bpain", "point\\b", "invoice">>

tPlain == <<"I'd", "pay", "for", "an", "app", "that", "tracks", "my", "expenses">>

ItemKinds ==
    {[text |-> tPay, fresh |-> TRUE],
     [text |-> tApp, fresh |-> TRUE],
     [text |-> tPain, fresh |-> FALSE],
     [text |-> tPlain, fresh |-> TRUE]}

WithIds(kinds, first) ==
    [i \in 1..Len(kinds) |-> [id |-> ToString(first + i - 1)] @@ kinds[i]]

\* a Reddit listing is flat: a submission is followed by its comments
RedditKinds(kinds) ==
    {[kind |-> k, text |-> it.text, fresh |-> it.fresh] : k \in {"submission", "comment"}, it \in kinds}

\* an exception: its message is the tag followed by interpolated text, and
\* detail is the set of marker substrings that text contains
Exc(tag, detail) == [tag |-> tag, detail |-> detail]

Contains(exc, marker) == marker = exc.tag \/ marker \in exc.detail

StatusText(status) ==
    CASE status = 401 -> "401"
      [] status = 403 -> "403"
      [] status = 429 -> "429"
      [] OTHER -> "500"

\* an HTTP answer: 200 with items, or an error status whose body holds the
\* marker substrings of body (credits: an X payload that mentions credits);
\* status 0 is a request that raised (timeout, connection refused)
HttpOk(items) == [status |-> 200, items |-> items]

HttpError(status, credits, body) == [status |-> status, credits |-> credits, body |-> body]

\* What the providers can do in a scenario: the items they hold, the errors
\* each answers with, and whether the REDDIT_* and X_BEARER_TOKEN variables
\* may be unset.
FullWorld ==
    [items |-> ItemKinds,
     errors |-> [Reddit |-> {HttpError(403, FALSE, {})},
                 X |-> {HttpError(401, FALSE, {}), HttpError(403, TRUE, {}),
                        HttpError(500, FALSE, {"401"})},
                 Bluesky |-> {HttpError(429, FALSE, {}), HttpError(0, FALSE, {})},
                 Mastodon |-> {HttpError(401, FALSE, {}), HttpError(500, FALSE, {})}],
     env_unset |-> TRUE]

\* the providers hold nothing that is new
StillWorld ==
    [items |-> {}, errors |-> [src \in {"Reddit", "X", "Bluesky", "Mastodon"} |-> {}],
     env_unset |-> FALSE]

\* one post, which any request may return again
QuietWorld ==
    [items |-> {[text |-> tPay, fresh |-> TRUE]},
     errors |-> [src \in {"Reddit", "X", "Bluesky", "Mastodon"} |-> {}],
     env_unset |-> FALSE]

\* the requests one adapter run makes for nq queries: answers with status
\* 200 one after the other, ended by the first error if there is one; at
\* most n items are handed out
RECURSIVE CallSeqs(_, _, _, _)
CallSeqs(nq, n, kinds, errors) ==
    IF nq = 0 THEN {<<>>}
    ELSE {<<e>> : e \in errors}
         \cup UNION {{<<HttpOk(items)>> \o rest :
                        rest \in CallSeqs(nq - 1, n - Len(items), kinds, errors)} :
                     items \in SeqsUpTo(kinds, n)}

ItemsIn(calls) ==
    LET n(i) == IF calls[i].status = 200 THEN Len(calls[i].items) ELSE 0
    IN  SumOver([i \in 1..Len(calls) |-> n(i)], 1..Len(calls))

(***************************************************************************)
(* The running summary of an adapter, and app/main.py: merge_summaries.    *)
(***************************************************************************)
new_summary_bucket ==
    [mentions |-> 0, pay_mentions |-> 0, sources |-> {}, subreddits |-> {},
     sample_title |-> "", sample_url |-> ""]

EmptySummary == [k \in {} |-> new_summary_bucket]

\* a variant that counts a paying mention apart from the plain ones
AddMention_split(summary, row, pay) ==
    LET key == row.idea_key
        old == IF key \in DOMAIN summary THEN summary[key] ELSE new_summary_bucket
        new == [old EXCEPT !.mentions = @ + (IF pay THEN 0 ELSE 1),
                           !.pay_mentions = @ + (IF pay THEN 1 ELSE 0),
                           !.sources = @ \cup {row.source}]
    IN  [k \in DOMAIN summary \cup {key} |-> IF k = key THEN new ELSE summary[k]]

\* bucket = summary[key] (created when absent); mentions += 1; pay_mentions
\* += 1 if pay; the source and bucket label are added; the first title that
\* is not empty becomes the sample
AddMention(summary, row, pay) ==
    LET key == row.idea_key
        old == IF key \in DOMAIN summary THEN summary[key] ELSE new_summary_bucket
        first == old.sample_title = ""
        new == [mentions |-> old.mentions + 1,
                pay_mentions |-> old.pay_mentions + (IF pay THEN 1 ELSE 0),
                sources |-> old.sources \cup {row.source},
                subreddits |-> old.subreddits \cup {row.subreddit},
                sample_title |-> IF first THEN row.title ELSE old.sample_title,
                sample_url |-> IF first THEN row.permalink ELSE old.sample_url]
    IN  [k \in DOMAIN summary \cup {key} |-> IF k = key THEN new ELSE summary[k]]

\* a variant that takes the incoming counts instead of adding them
merge_summaries_assign(target, incoming) ==
    [key \in DOMAIN target \cup DOMAIN incoming |->
        IF key \notin DOMAIN incoming THEN target[key]
        ELSE LET bucket == IF key \in DOMAIN target THEN target[key] ELSE new_summary_bucket
                 data == incoming[key]
             IN  [bucket EXCEPT !.mentions = data.mentions,
                                !.pay_mentions = bucket.pay_mentions + data.pay_mentions,
                                !.sources = @ \cup data.sources]]

\* a variant that keeps the sample seen last
merge_summaries_last(target, incoming) ==
    [key \in DOMAIN target \cup DOMAIN incoming |->
        IF key \notin DOMAIN incoming THEN target[key]
        ELSE LET bucket == IF key \in DOMAIN target THEN target[key] ELSE new_summary_bucket
                 data == incoming[key]
                 take == data.sample_title # ""
             IN  [mentions |-> bucket.mentions + data.mentions,
                  pay_mentions |-> bucket.pay_mentions + data.pay_mentions,
                  sources |-> bucket.sources \cup data.sources,
                  subreddits |-> bucket.subreddits \cup data.subreddits,
                  sample_title |-> IF take THEN data.sample_title ELSE bucket.sample_title,
                  sample_url |-> IF take THEN data.sample_url ELSE bucket.sample_url]]

merge_summaries(target, incoming) ==
    [key \in DOMAIN target \cup DOMAIN incoming |->
        IF key \notin DOMAIN incoming THEN target[key]
        ELSE LET bucket == IF key \in DOMAIN target THEN target[key] ELSE new_summary_bucket
                 data == incoming[key]
                 take == bucket.sample_title = "" /\ data.sample_title # ""
             IN  [mentions |-> bucket.mentions + data.mentions,
                  pay_mentions |-> bucket.pay_mentions + data.pay_mentions,
                  sources |-> bucket.sources \cup data.sources,
                  subreddits |-> bucket.subreddits \cup data.subreddits,
                  sample_title |-> IF take THEN data.sample_title ELSE bucket.sample_title,
                  sample_url |-> IF take THEN data.sample_url ELSE bucket.sample_url]]

(***************************************************************************)
(* The adapters.  Each returns [ok |-> TRUE, rows, summary, meta, stats]   *)
(* or, when it raises, [ok |-> FALSE, exc].                                *)
(***************************************************************************)
TitleLen == 80

\* text[:80] + "..." when the text is longer; no text of the model is
Title(text) ==
    LET s == JoinWith(" ", text)
    IN  IF Len(s) > TitleLen THEN "..." ELSE s

Raised(exc) == [ok |-> FALSE, exc |-> exc]

Returned(acc) ==
    [ok |-> TRUE, rows |-> acc.rows, summary |-> acc.summary, meta |-> acc.meta,
     stats |-> [fetched_total |-> acc.fetched, matched |-> Len(acc.rows)]]

EmptyAcc == [rows |-> <<>>, summary |-> EmptySummary, meta |-> <<>>, fetched |-> 0]

MakeRow(source, bucket, type, item, title, url, groups) ==
    [source |-> source, subreddit |-> bucket, type |-> type, id |-> item.id,
     fresh |-> item.fresh, title |-> title, permalink |-> url,
     match_groups |-> JoinWith(";", groups),
     willing_to_pay |-> IF "pay" \in Range(groups) THEN "yes" ELSE "no",
     idea_key |-> idea_key(item.text)]

XUrl(item) == "https://x.com/i/web/status/" \o item.id

BskyUrl(item) == "https://bsky.app/profile/post/" \o item.id

MastodonUrl(item) == "https://mastodon.social/" \o item.id

ItemUrl(source, item) ==
    CASE source = "X" -> XUrl(item)
      [] source = "Bluesky" -> BskyUrl(item)
      [] OTHER -> MastodonUrl(item)

\* the adapter's own reason to drop an item before classifying it: Bluesky
\* and Mastodon drop an item without text, Mastodon one older than the
\* cutoff (when since_days > 0); X drops nothing
SkipItem(source, item, since_days) ==
    CASE source = "X" -> FALSE
      [] source = "Bluesky" -> item.text = <<>>
      [] OTHER -> (since_days > 0 /\ ~item.fresh) \/ item.text = <<>>

\* one item of an X, Bluesky or Mastodon answer
OneItem(acc, source, bucket, type, item, since_days) ==
    LET groups == match_groups(item.text, compile_patterns)
    IN  IF SkipItem(source, item, since_days) \/ groups = <<>> THEN acc
        ELSE LET row == MakeRow(source, bucket, type, item, Title(item.text),
                                ItemUrl(source, item), groups)
             IN  [acc EXCEPT !.rows = Append(@, row),
                             !.summary = AddMention(@, row, "pay" \in Range(groups))]

RECURSIVE Items(_, _, _, _, _, _)
\* the loop over the items of one answer; the test of next has the rows and
\* the summary evaluated after every item, as the loop has them
Items(acc, source, bucket, type, items, since_days) ==
    IF items = <<>> THEN acc
    ELSE LET next == OneItem(acc, source, bucket, type, Head(items), since_days)
         IN  IF next = next
             THEN Items(next, source, bucket, type, Tail(items), since_days)
             ELSE acc

\* x_scanning.py: fetch_recent_tweets, one page
fetch_recent_tweets(answer, limit) ==
    IF answer.status = 0 THEN Raised(Exc("ConnectionError", {}))
    ELSE IF answer.status # 200 THEN
        IF answer.credits THEN Raised(Exc("X_CREDITS_DEPLETED", answer.body))
        ELSE IF answer.status = 401 THEN Raised(Exc("X_AUTH_ERROR", {}))
        ELSE Raised(Exc("X API error", {StatusText(answer.status)} \cup answer.body))
    ELSE [ok |-> TRUE, items |-> SubSeq(answer.items, 1, Min(limit, Len(answer.items)))]

\* bsky_scanning.py: fetch_search_posts
fetch_search_posts(answer) ==
    IF answer.status = 0 THEN Raised(Exc("ConnectionError", {}))
    ELSE IF answer.status # 200 THEN
        IF answer.status = 401 THEN Raised(Exc("BSKY_AUTH_ERROR", {}))
        ELSE IF answer.status = 403 THEN Raised(Exc("BSKY_FORBIDDEN", {}))
        ELSE IF answer.status = 429 THEN Raised(Exc("BSKY_RATE_LIMIT", {}))
        ELSE Raised(Exc("BSKY_API_ERROR", {StatusText(answer.status)} \cup answer.body))
    ELSE [ok |-> TRUE, items |-> answer.items]

\* mastodon_scanning.py: fetch_statuses
fetch_statuses(answer) ==
    IF answer.status = 0 THEN Raised(Exc("ConnectionError", {}))
    ELSE IF answer.status # 200 THEN
        IF answer.status = 401 THEN Raised(Exc("MASTODON_AUTH_ERROR", {}))
        ELSE IF answer.status = 429 THEN Raised(Exc("MASTODON_RATE_LIMIT", {}))
        ELSE Raised(Exc("MASTODON_API_ERROR", {StatusText(answer.status)} \cup answer.body))
    ELSE [ok |-> TRUE, items |-> answer.items]

RECURSIVE XQueries(_, _, _, _)
XQueries(acc, queries, calls, limit) ==
    IF queries = <<>> THEN Returned(acc)
    ELSE LET got == fetch_recent_tweets(Head(calls), limit)
         IN  IF ~got.ok THEN got
             ELSE XQueries(
                    Items([acc EXCEPT !.fetched = @ + Len(got.items),
                                      !.meta = Append(@, Head(queries))],
                          "X", "query:" \o Head(queries), "tweet", got.items, 0),
                    Tail(queries), Tail(calls), limit)

\* x_scanning.py: scan_x_queries; token is whether X_BEARER_TOKEN is set
scan_x_queries(queries, limit_per_query, token, calls) ==
    IF ~token THEN Raised(Exc("Missing environment variable: X_BEARER_TOKEN", {}))
    ELSE XQueries(EmptyAcc, queries, calls, limit_per_query)

RECURSIVE BskyQueries(_, _, _)
BskyQueries(acc, queries, calls) ==
    IF queries = <<>> THEN Returned(acc)
    ELSE LET got == fetch_search_posts(Head(calls))
         IN  IF ~got.ok THEN got
             ELSE BskyQueries(
                    Items([acc EXCEPT !.fetched = @ + Len(got.items),
                                      !.meta = Append(@, Head(queries))],
                          "Bluesky", "bsky:" \o Head(queries), "post", got.items, 0),
                    Tail(queries), Tail(calls))

\* bsky_scanning.py: scan_bsky_queries
scan_bsky_queries(queries, calls) == BskyQueries(EmptyAcc, queries, calls)

RECURSIVE MastodonQueries(_, _, _, _)
MastodonQueries(acc, queries, calls, since_days) ==
    IF queries = <<>> THEN Returned(acc)
    ELSE LET got == fetch_statuses(Head(calls))
         IN  IF ~got.ok THEN got
             ELSE MastodonQueries(
                    Items([acc EXCEPT !.fetched = @ + Len(got.items),
                                      !.meta = Append(@, Head(queries))],
                          "Mastodon", "mastodon:" \o Head(queries), "status", got.items,
                          since_days),
                    Tail(queries), Tail(calls), since_days)

\* mastodon_scanning.py: scan_mastodon_queries
scan_mastodon_queries(queries, since_days, calls) ==
    MastodonQueries(EmptyAcc, queries, calls, since_days)

(***************************************************************************)
(* app/scanning.py: load_reddit, iter_comments, scan_subreddits.           *)
(***************************************************************************)
RedditUrl(item) == "https://www.reddit.com/" \o item.id

\* a variant whose strict filter looks at the submissions alone
RedditItem_lax(acc, name, e, include_comments, comment_limit, require_app_request) ==
    LET found == match_groups(e.text, compile_patterns)
        strict == require_app_request /\ e.kind = "submission" /\ "app_request" \notin Range(found)
        title == IF e.kind = "submission" THEN JoinWith(" ", e.text) ELSE acc.cur.title
        row == MakeRow("Reddit", name, e.kind, e, title, RedditUrl(e), found)
        counted == [acc EXCEPT !.fetched = @ + 1]
        matched == [counted EXCEPT !.rows = Append(@, row),
                                   !.summary = AddMention(@, row, "pay" \in Range(found))]
    IN  IF e.kind = "submission" THEN
            IF ~e.fresh THEN [acc EXCEPT !.cur = [title |-> "", skip |-> TRUE, n |-> 0]]
            ELSE [(IF strict \/ found = <<>> THEN counted ELSE matched)
                    EXCEPT !.cur = [title |-> title, skip |-> FALSE, n |-> 0]]
        ELSE IF ~include_comments \/ acc.cur.skip
                \/ (comment_limit # 0 /\ acc.cur.n >= comment_limit) THEN acc
        ELSE IF ~e.fresh THEN [acc EXCEPT !.cur.n = @ + 1]
        ELSE [(IF strict \/ found = <<>> THEN counted ELSE matched) EXCEPT !.cur.n = @ + 1]

\* one element of a subreddit's listing.  acc.cur is the submission the
\* loop is in: its title, whether the cutoff skipped it (continue: its
\* comments are never asked for) and how many comments iter_comments has
\* yielded
RedditItem(acc, name, e, include_comments, comment_limit, require_app_request) ==
    LET found == match_groups(e.text, compile_patterns)
        strict == require_app_request /\ "app_request" \notin Range(found)
        title == IF e.kind = "submission" THEN JoinWith(" ", e.text) ELSE acc.cur.title
        row == MakeRow("Reddit", name, e.kind, e, title, RedditUrl(e), found)
        counted == [acc EXCEPT !.fetched = @ + 1]
        matched == [counted EXCEPT !.rows = Append(@, row),
                                   !.summary = AddMention(@, row, "pay" \in Range(found))]
    IN  IF e.kind = "submission" THEN
            IF ~e.fresh THEN [acc EXCEPT !.cur = [title |-> "", skip |-> TRUE, n |-> 0]]
            ELSE [(IF strict \/ found = <<>> THEN counted ELSE matched)
                    EXCEPT !.cur = [title |-> title, skip |-> FALSE, n |-> 0]]
        ELSE IF ~include_comments \/ acc.cur.skip
                \/ (comment_limit # 0 /\ acc.cur.n >= comment_limit) THEN acc
        ELSE IF ~e.fresh THEN [acc EXCEPT !.cur.n = @ + 1]
        ELSE [(IF strict \/ found = <<>> THEN counted ELSE matched) EXCEPT !.cur.n = @ + 1]

RECURSIVE RedditListing(_, _, _, _, _, _)
RedditListing(acc, name, listing, include_comments, comment_limit, require_app_request) ==
    IF listing = <<>> THEN acc
    ELSE RedditListing(
            RedditItem(acc, name, Head(listing), include_comments, comment_limit, require_app_request),
            name, Tail(listing), include_comments, comment_limit, require_app_request)

RECURSIVE Subreddits(_, _, _, _, _, _)
Subreddits(acc, subreddits, calls, include_comments, comment_limit, require_app_request) ==
    IF subreddits = <<>> THEN Returned(acc)
    ELSE IF Head(calls).status # 200 THEN
        Raised(Exc("prawcore.ResponseException", {StatusText(Head(calls).status)}))
    ELSE Subreddits(
            RedditListing([acc EXCEPT !.cur = [title |-> "", skip |-> TRUE, n |-> 0]],
                          Head(subreddits), Head(calls).items,
                          include_comments, comment_limit, require_app_request),
            Tail(subreddits), Tail(calls), include_comments, comment_limit, require_app_request)

\* load_reddit raises when the REDDIT_* variables are not all set (creds);
\* the listing requests are made while scan_subreddits iterates
scan_subreddits(creds, subreddits, calls, include_comments, comment_limit, require_app_request) ==
    IF ~creds THEN Raised(Exc("Missing environment variables", {"REDDIT_CLIENT_ID"}))
    ELSE Subreddits([rows |-> <<>>, summary |-> EmptySummary, meta |-> <<"limits">>, fetched |-> 0,
                     cur |-> [title |-> "", skip |-> TRUE, n |-> 0]],
                    subreddits, calls, include_comments, comment_limit, require_app_request)

(***************************************************************************)
(* The organizations' configuration (scan_configs rows).  A comma          *)
(* separated column is the sequence of its entries: the empty string is    *)
(* the one empty entry.                                                    *)
(***************************************************************************)
Orgs == {1, 2}

Sources == <<"Reddit", "X", "Bluesky", "Mastodon">>

SourceSet == Range(Sources)

Strip(entry) ==
    CASE entry = " " -> ""
      [] entry = " saas" -> "saas"
      [] OTHER -> entry

\* [x.strip() for x in column.split(",") if x.strip()]
SplitClean(column) ==
    LET stripped == [i \in 1..Len(column) |-> Strip(column[i])]
    IN  SelectSeq(stripped, LAMBDA entry : entry # "")

\* bool(column): the column is not the empty string
Truthy(column) == column # <<"">>

DefaultConfig ==
    [subreddits |-> <<"Entrepreneur">>, post_limit |-> 200, include_comments |-> TRUE,
     comment_limit |-> 200, require_app_request |-> FALSE,
     x_enabled |-> FALSE, x_queries |-> <<"app for">>, x_post_limit |-> 100,
     bsky_enabled |-> FALSE, bsky_queries |-> <<"app for">>,
     mastodon_enabled |-> FALSE, mastodon_queries |-> <<"app for">>, mastodon_since_days |-> 7]

\* every source on, X with two queries
AllOn ==
    [DefaultConfig EXCEPT !.x_enabled = TRUE, !.x_queries = <<"app for", " ", "tool for">>,
                          !.bsky_enabled = TRUE, !.mastodon_enabled = TRUE]

\* X alone
XOnly == [DefaultConfig EXCEPT !.subreddits = <<"">>, !.x_enabled = TRUE]

\* no subreddit; Bluesky on with a blank query list, Mastodon on
Sparse ==
    [DefaultConfig EXCEPT !.subreddits = <<" ">>, !.bsky_enabled = TRUE, !.bsky_queries = <<"">>,
                          !.mastodon_enabled = TRUE, !.mastodon_since_days = 0,
                          !.x_enabled = TRUE, !.x_queries = <<"app for">>]

\* the strict Reddit filter, two subreddits, one comment per submission
Strict ==
    [DefaultConfig EXCEPT !.subreddits = <<"Entrepreneur", " saas">>, !.comment_limit = 1,
                          !.require_app_request = TRUE, !.x_enabled = TRUE, !.x_post_limit = 1]

\* every flag set and every list without a query: blanks, or the empty column
Blank ==
    [DefaultConfig EXCEPT !.subreddits = <<" ", "">>, !.x_enabled = TRUE, !.x_queries = <<" ", " ">>,
                          !.bsky_enabled = TRUE, !.bsky_queries = <<"">>,
                          !.mastodon_enabled = TRUE, !.mastodon_queries = <<" ">>]

Configs == {DefaultConfig, AllOn, Sparse, Strict, Blank}

(***************************************************************************)
(* State.                                                                  *)
(***************************************************************************)
VARIABLES
    scan_configs,     \* table scan_configs: org -> row
    schedules,        \* table schedules: org -> [interval_hours, last_run_utc]
    scans,            \* table scans, committed rows in rowid order
    scan_results,     \* table scan_results, committed rows in rowid order
    idea_summaries,   \* table idea_summaries, the set of committed rows
    scan_seq,         \* sqlite_sequence of scans: the last id handed out and committed
    tx,               \* per process: the rows its open connection wrote and has not committed
    wlock,            \* the process whose connection holds the database's write lock
    frame,            \* per process: position and local variables
    view,             \* what the last reader rendered
    clock,            \* the time, in hours
    budget,           \* items the providers may still hand out
    runs,             \* scan runs that may still be started
    crashes,          \* process crashes so far
    providers,        \* what the providers hold and how they fail
    ticks,            \* ticks the scheduler may still start
    call              \* the helper that is called on its own, its arguments and result

vars == <<scan_configs, schedules, scans, scan_results, idea_summaries, scan_seq,
          tx, wlock, frame, view, clock, budget, runs, crashes, providers, ticks, call>>

\* everything but call
program == <<scan_configs, schedules, scans, scan_results, idea_summaries, scan_seq,
             tx, wlock, frame, view, clock, budget, runs, crashes, providers, ticks>>

db == <<scan_configs, schedules, scans, scan_results, idea_summaries, scan_seq>>

Procs == {"manual", "tick"}

NoProc == "none"

NoExc == Exc("", {})

EmptyTx == [scans |-> <<>>, scan_results |-> <<>>, idea_summaries |-> {}]

ZeroStats == [fetched_total |-> 0, matched |-> 0]

\* the locals of run_scan_for_org as lines 161-174 initialise them
IdleFrame ==
    [pc |-> "idle", org |-> 0, config |-> NULL,
     rows |-> <<>>, summary |-> EmptySummary,
     meta |-> [src \in SourceSet |-> <<>>],
     stats |-> [src \in SourceSet |-> ZeroStats],
     warnings |-> <<>>, outcome |-> [src \in SourceSet |-> "skipped"],
     part |-> EmptySummary, scan_id |-> 0,
     got |-> [src \in SourceSet |-> [rows |-> <<>>, summary |-> EmptySummary]],
     heard |-> [src \in SourceSet |-> [answers |-> 0, matching |-> 0]],
     \* run_due_scans: the rows fetch_all returned, the loop index, now, and
     \* the scheduler's history
     sched |-> <<>>, idx |-> 0, now |-> 0, ran |-> <<>>]

IdleView == [kind |-> "none", pc |-> "done"]

NoCall == [fn |-> "none"]

json_dumps(value) == <<"json", value>>

\* A time is an hour and, to order the instants of one hour, the number of
\* the scan written then (0 when the order does not matter).
\* datetime.isoformat and datetime.fromisoformat: a time and its text
isoformat(t, n) == <<"iso", t, n>>

fromisoformat(text) == text[2]

\* the order of two texts as SQLite compares them
Before(a, b) == a[2] < b[2] \/ (a[2] = b[2] /\ a[3] < b[3])

\* db.py: utc_now
utc_now(n) == isoformat(clock, n)

\* the first items' id for the next provider answer
NextItem == MaxFetched - budget + 1

(***************************************************************************)
(* app/main.py: run_scan_for_org, lines 156-262: the adapters.             *)
(***************************************************************************)
\* a warning: the words of its fixed text and the exception it interpolates
Warning(words, exc) == [words |-> words, exc |-> exc]

RedditWarning(exc) == Warning(<<"Reddit", "scan", "skipped:">>, exc)

XWarning(exc) ==
    IF Contains(exc, "X_CREDITS_DEPLETED")
    THEN Warning(<<"X", "credits", "depleted.">>, NoExc)
    ELSE IF Contains(exc, "X_AUTH_ERROR") \/ Contains(exc, "401")
    THEN Warning(<<"X", "authentication", "failed.">>, NoExc)
    ELSE Warning(<<"X", "scan", "skipped:">>, exc)

BskyWarning(exc) ==
    IF Contains(exc, "BSKY_RATE_LIMIT")
    THEN Warning(<<"Bluesky", "rate", "limit", "reached.">>, NoExc)
    ELSE IF Contains(exc, "BSKY_AUTH_ERROR")
    THEN Warning(<<"Bluesky", "auth", "failed.">>, NoExc)
    ELSE IF Contains(exc, "BSKY_FORBIDDEN")
    THEN Warning(<<"Bluesky", "request", "blocked", "(403).">>, NoExc)
    ELSE Warning(<<"Bluesky", "scan", "skipped:">>, exc)

MastodonWarning(exc) ==
    IF Contains(exc, "MASTODON_RATE_LIMIT")
    THEN Warning(<<"Mastodon", "rate", "limit", "reached.">>, NoExc)
    ELSE IF Contains(exc, "MASTODON_AUTH_ERROR")
    THEN Warning(<<"Mastodon", "auth", "failed.">>, NoExc)
    ELSE Warning(<<"Mastodon", "scan", "skipped:">>, exc)

\* a variant that keeps the metadata of the queries answered before the
\* exception
TryAdapter_partial(f, source, result, warning) ==
    IF result.ok
    THEN [f EXCEPT !.rows = @ \o result.rows,
                   !.summary = merge_summaries(@, result.summary),
                   !.meta[source] = result.meta,
                   !.stats[source] = result.stats]
    ELSE [f EXCEPT !.warnings = Append(@, warning), !.meta[source] = <<"queries">>]

\* a variant whose except clause passes without a warning
TryAdapter_pass(f, source, result, warning) ==
    IF result.ok
    THEN [f EXCEPT !.rows = @ \o result.rows,
                   !.summary = merge_summaries(@, result.summary),
                   !.meta[source] = result.meta,
                   !.stats[source] = result.stats]
    ELSE f

\* the try block around one adapter: on return the rows are appended, the
\* summary merged and the source's meta and stats kept; on an exception
\* only the warning is appended
TryAdapter(f, source, result, warning) ==
    IF result.ok
    THEN [f EXCEPT !.rows = @ \o result.rows,
                   !.summary = merge_summaries(@, result.summary),
                   !.meta[source] = result.meta,
                   !.stats[source] = result.stats]
    ELSE [f EXCEPT !.warnings = Append(@, warning)]

\* what an adapter run meets: whether its credentials are set, and the
\* providers' answers to the requests it makes
AdapterInputs(needs_creds, nq, kinds, errors) ==
    (IF needs_creds /\ providers.env_unset THEN {[creds |-> FALSE, calls |-> <<>>]} ELSE {})
    \cup {[creds |-> TRUE, calls |-> c] : c \in CallSeqs(nq, budget, kinds, errors)}

\* the conditions under which run_scan_for_org calls each adapter
RedditOn(config) == SplitClean(config.subreddits) # <<>>

\* a variant that looks at the flag alone
XOn_flag(config) == config.x_enabled

XOn(config) ==
    config.x_enabled /\ Truthy(config.x_queries) /\ SplitClean(config.x_queries) # <<>>

BskyOn(config) ==
    config.bsky_enabled /\ Truthy(config.bsky_queries) /\ SplitClean(config.bsky_queries) # <<>>

MastodonOn(config) ==
    /\ config.mastodon_enabled
    /\ Truthy(config.mastodon_queries)
    /\ SplitClean(config.mastodon_queries) # <<>>

Step(p, f) == frame' = [frame EXCEPT ![p] = f]

\* outcome notes, per source, whether its adapter ran and how it ended,
\* part is the summary the last adapter returned, and got the rows and the
\* summary each adapter returned
Called(f, source, result) ==
    [f EXCEPT !.outcome[source] = IF result.ok THEN "returned" ELSE "raised",
              !.part = IF result.ok THEN result.summary ELSE EmptySummary,
              !.got[source] = IF result.ok
                              THEN [rows |-> result.rows, summary |-> result.summary]
                              ELSE @]

\* heard notes, of an adapter that raised, how many answers it had got and
\* how many of their items match a group
Heard(result, answers) ==
    IF result.ok THEN [answers |-> 0, matching |-> 0]
    ELSE LET pages == {i \in DOMAIN answers : answers[i].status = 200}
             n(i) == Cardinality({j \in DOMAIN answers[i].items :
                        match_groups(answers[i].items[j].text, compile_patterns) # <<>>})
         IN  [answers |-> Len(answers), matching |-> SumOver([i \in pages |-> n(i)], pages)]

\* the answers of one adapter run, the items numbered as the provider hands them out
Numbered(input) ==
    [i \in 1..Len(input.calls) |->
        IF input.calls[i].status = 200
        THEN HttpOk(WithIds(input.calls[i].items, NextItem + ItemsIn(SubSeq(input.calls, 1, i - 1))))
        ELSE input.calls[i]]

RedditStep(p) ==
    LET f == frame[p]
        subreddits == SplitClean(f.config.subreddits)
    IN  /\ f.pc = "reddit"
        /\ IF RedditOn(f.config)
           THEN \E input \in AdapterInputs(TRUE, Len(subreddits), RedditKinds(providers.items),
                                                providers.errors["Reddit"]) :
                  LET result == scan_subreddits(input.creds, subreddits, Numbered(input),
                                                f.config.include_comments, f.config.comment_limit,
                                                f.config.require_app_request)
                  IN  /\ Step(p, [TryAdapter(Called(f, "Reddit", result), "Reddit", result,
                                             RedditWarning(IF result.ok THEN NoExc ELSE result.exc))
                                    EXCEPT !.pc = "x",
                                           !.heard["Reddit"] = Heard(result, Numbered(input))])
                      /\ budget' = budget - ItemsIn(input.calls)
           ELSE Step(p, [f EXCEPT !.pc = "x"]) /\ UNCHANGED budget
        /\ UNCHANGED <<call, db, tx, wlock, view, clock, runs, crashes, providers, ticks>>

XStep(p) ==
    LET f == frame[p]
        queries == SplitClean(f.config.x_queries)
    IN  /\ f.pc = "x"
        /\ IF XOn(f.config)
           THEN \E input \in AdapterInputs(TRUE, Len(queries), providers.items, providers.errors["X"]) :
                  LET result == scan_x_queries(queries, f.config.x_post_limit, input.creds,
                                               Numbered(input))
                  IN  /\ Step(p, [TryAdapter(Called(f, "X", result), "X", result,
                                             XWarning(IF result.ok THEN NoExc ELSE result.exc))
                                    EXCEPT !.pc = "bsky",
                                           !.heard["X"] = Heard(result, Numbered(input))])
                      /\ budget' = budget - ItemsIn(input.calls)
           ELSE Step(p, [f EXCEPT !.pc = "bsky"]) /\ UNCHANGED budget
        /\ UNCHANGED <<call, db, tx, wlock, view, clock, runs, crashes, providers, ticks>>

BskyStep(p) ==
    LET f == frame[p]
        queries == SplitClean(f.config.bsky_queries)
    IN  /\ f.pc = "bsky"
        /\ IF BskyOn(f.config)
           THEN \E input \in AdapterInputs(FALSE, Len(queries), providers.items,
                                                providers.errors["Bluesky"]) :
                  LET result == scan_bsky_queries(queries, Numbered(input))
                  IN  /\ Step(p, [TryAdapter(Called(f, "Bluesky", result), "Bluesky", result,
                                             BskyWarning(IF result.ok THEN NoExc ELSE result.exc))
                                    EXCEPT !.pc = "mastodon",
                                           !.heard["Bluesky"] = Heard(result, Numbered(input))])
                      /\ budget' = budget - ItemsIn(input.calls)
           ELSE Step(p, [f EXCEPT !.pc = "mastodon"]) /\ UNCHANGED budget
        /\ UNCHANGED <<call, db, tx, wlock, view, clock, runs, crashes, providers, ticks>>

MastodonStep(p) ==
    LET f == frame[p]
        queries == SplitClean(f.config.mastodon_queries)
    IN  /\ f.pc = "mastodon"
        /\ IF MastodonOn(f.config)
           THEN \E input \in AdapterInputs(FALSE, Len(queries), providers.items,
                                                providers.errors["Mastodon"]) :
                  LET result == scan_mastodon_queries(queries, f.config.mastodon_since_days,
                                                      Numbered(input))
                  IN  /\ Step(p, [TryAdapter(Called(f, "Mastodon", result), "Mastodon", result,
                                             MastodonWarning(IF result.ok THEN NoExc ELSE result.exc))
                                    EXCEPT !.pc = "insert_scan",
                                           !.heard["Mastodon"] = Heard(result, Numbered(input))])
                      /\ budget' = budget - ItemsIn(input.calls)
           ELSE Step(p, [f EXCEPT !.pc = "insert_scan"]) /\ UNCHANGED budget
        /\ UNCHANGED <<call, db, tx, wlock, view, clock, runs, crashes, providers, ticks>>

(***************************************************************************)
(* app/db.py: get_conn; app/main.py: run_scan_for_org, lines 264-340.      *)
(*                                                                         *)
(* sqlite3 opens a transaction before the first INSERT of a connection and *)
(* takes the database's write lock; get_conn commits when the with block   *)
(* ends normally and only closes the connection when it raises, which      *)
(* rolls the transaction back.  Other connections read committed rows.     *)
(***************************************************************************)
WritePcs == {"insert_scan", "insert_results", "insert_summaries", "commit"}

\* a variant that stores the scan's number of rows as every source's matched
ScanHeader_total(f, id) ==
    [id |-> id, org_id |-> f.org, created_utc |-> utc_now(id),
     rate_limit |-> [src \in SourceSet |->
                        IF f.meta[src] # <<>> THEN json_dumps(f.meta[src]) ELSE NULL],
     fetched |-> [src \in SourceSet |-> f.stats[src].fetched_total],
     matched |-> [src \in SourceSet |-> Len(f.rows)],
     warnings |-> IF f.warnings # <<>> THEN json_dumps(f.warnings) ELSE NULL]

\* a variant that stores the warnings only of a scan that matched something
ScanHeader_matched(f, id) ==
    [id |-> id, org_id |-> f.org, created_utc |-> utc_now(id),
     rate_limit |-> [src \in SourceSet |->
                        IF f.meta[src] # <<>> THEN json_dumps(f.meta[src]) ELSE NULL],
     fetched |-> [src \in SourceSet |-> f.stats[src].fetched_total],
     matched |-> [src \in SourceSet |-> f.stats[src].matched],
     warnings |-> IF f.warnings # <<>> /\ f.rows # <<>> THEN json_dumps(f.warnings) ELSE NULL]

ScanHeader(f, id) ==
    [id |-> id, org_id |-> f.org, created_utc |-> utc_now(id),
     rate_limit |-> [src \in SourceSet |->
                        IF f.meta[src] # <<>> THEN json_dumps(f.meta[src]) ELSE NULL],
     fetched |-> [src \in SourceSet |-> f.stats[src].fetched_total],
     matched |-> [src \in SourceSet |-> f.stats[src].matched],
     warnings |-> IF f.warnings # <<>> THEN json_dumps(f.warnings) ELSE NULL]

\* a variant that neither waits for the write lock nor takes it
InsertScan_nolock(p) ==
    LET f == frame[p]
        id == scan_seq + 1
    IN  /\ f.pc = "insert_scan"
        /\ tx' = [tx EXCEPT ![p].scans = <<ScanHeader(f, id)>>]
        /\ Step(p, [f EXCEPT !.scan_id = id, !.pc = "insert_results"])
        /\ UNCHANGED <<call, db, wlock, view, clock, budget, runs, crashes, providers, ticks>>

\* INSERT INTO scans ... .lastrowid
InsertScan(p) ==
    LET f == frame[p]
        id == scan_seq + 1
    IN  /\ f.pc = "insert_scan"
        /\ wlock = NoProc
        /\ wlock' = p
        /\ tx' = [tx EXCEPT ![p].scans = <<ScanHeader(f, id)>>]
        /\ Step(p, [f EXCEPT !.scan_id = id, !.pc = "insert_results"])
        /\ UNCHANGED <<call, db, view, clock, budget, runs, crashes, providers, ticks>>

ResultRow(scan_id, row) == [scan_id |-> scan_id] @@ row

\* a variant on a connection in autocommit mode: the rows are committed as
\* they are written
InsertResults_autocommit(p) ==
    LET f == frame[p]
    IN  /\ f.pc = "insert_results"
        /\ scan_results' = scan_results \o
                                [i \in 1..Len(f.rows) |-> ResultRow(f.scan_id, f.rows[i])]
        /\ Step(p, [f EXCEPT !.pc = "insert_summaries"])
        /\ UNCHANGED <<call, scan_configs, schedules, scans, idea_summaries, scan_seq, tx, wlock,
                       view, clock, budget, runs, crashes, providers, ticks>>

\* executemany INSERT INTO scan_results
InsertResults(p) ==
    LET f == frame[p]
    IN  /\ f.pc = "insert_results"
        /\ tx' = [tx EXCEPT ![p].scan_results =
                    [i \in 1..Len(f.rows) |-> ResultRow(f.scan_id, f.rows[i])]]
        /\ Step(p, [f EXCEPT !.pc = "insert_summaries"])
        /\ UNCHANGED <<call, db, wlock, view, clock, budget, runs, crashes, providers, ticks>>

SummaryRow(scan_id, key, data) ==
    [scan_id |-> scan_id, idea_key |-> key, mentions |-> data.mentions,
     pay_mentions |-> data.pay_mentions, sources |-> data.sources,
     subreddits |-> data.subreddits, sample_title |-> data.sample_title,
     sample_url |-> data.sample_url]

\* executemany INSERT INTO idea_summaries
InsertSummaries(p) ==
    LET f == frame[p]
    IN  /\ f.pc = "insert_summaries"
        /\ tx' = [tx EXCEPT ![p].idea_summaries =
                    {SummaryRow(f.scan_id, key, f.summary[key]) : key \in DOMAIN f.summary}]
        /\ Step(p, [f EXCEPT !.pc = "commit"])
        /\ UNCHANGED <<call, db, wlock, view, clock, budget, runs, crashes, providers, ticks>>

\* conn.commit() as the with block ends, conn.close(), return
Commit(p) ==
    LET f == frame[p]
    IN  /\ f.pc = "commit"
        /\ scans' = scans \o tx[p].scans
        /\ scan_results' = scan_results \o tx[p].scan_results
        /\ idea_summaries' = idea_summaries \cup tx[p].idea_summaries
        /\ scan_seq' = f.scan_id
        /\ tx' = [tx EXCEPT ![p] = EmptyTx]
        /\ wlock' = NoProc
        /\ Step(p, [f EXCEPT !.pc = "returned"])
        /\ UNCHANGED <<call, scan_configs, schedules, view, clock, budget, runs, crashes, providers, ticks>>

\* a variant of get_conn that commits in its finally clause
DbError_commit(p) ==
    LET f == frame[p]
    IN  /\ f.pc \in WritePcs
        /\ scans' = scans \o tx[p].scans
        /\ scan_results' = scan_results \o tx[p].scan_results
        /\ idea_summaries' = idea_summaries \cup tx[p].idea_summaries
        /\ scan_seq' = IF tx[p].scans # <<>> THEN f.scan_id ELSE scan_seq
        /\ tx' = [tx EXCEPT ![p] = EmptyTx]
        /\ wlock' = IF wlock = p THEN NoProc ELSE wlock
        /\ Step(p, [IdleFrame EXCEPT !.pc = "raised", !.org = f.org, !.sched = f.sched,
                                     !.idx = f.idx, !.now = f.now, !.ran = f.ran])
        /\ UNCHANGED <<call, scan_configs, schedules, view, clock, budget, runs, crashes,
                       providers, ticks>>

\* a statement or the commit raises (disk full, database is locked after
\* the busy timeout): the finally clause closes the connection, the
\* transaction is rolled back, the exception leaves run_scan_for_org and
\* its locals are gone
DbError(p) ==
    LET f == frame[p]
    IN  /\ f.pc \in WritePcs
        /\ tx' = [tx EXCEPT ![p] = EmptyTx]
        /\ wlock' = IF wlock = p THEN NoProc ELSE wlock
        /\ Step(p, [IdleFrame EXCEPT !.pc = "raised", !.org = f.org, !.sched = f.sched,
                                     !.idx = f.idx, !.now = f.now, !.ran = f.ran])
        /\ UNCHANGED <<call, db, view, clock, budget, runs, crashes, providers, ticks>>

\* run_scan_for_org, lines 157-174: the configuration row and the locals
StartScan(org) ==
    [IdleFrame EXCEPT !.pc = "reddit", !.org = org, !.config = scan_configs[org]]

RunScanSteps(p) ==
    \/ RedditStep(p)
    \/ XStep(p)
    \/ BskyStep(p)
    \/ MastodonStep(p)
    \/ InsertScan(p)
    \/ InsertResults(p)
    \/ InsertSummaries(p)
    \/ Commit(p)
    \/ DbError(p)

(***************************************************************************)
(* app/main.py: run_scan, the manual trigger.                              *)
(***************************************************************************)
ManualTrigger ==
    /\ frame["manual"].pc = "idle"
    /\ runs > 0
    /\ \E org \in Orgs : Step("manual", StartScan(org))
    /\ runs' = runs - 1
    /\ UNCHANGED <<call, db, tx, wlock, view, clock, budget, crashes, providers, ticks>>

\* the flash message is set and the redirect sent
ManualDone ==
    /\ frame["manual"].pc \in {"returned", "raised"}
    /\ Step("manual", IdleFrame)
    /\ UNCHANGED <<call, db, tx, wlock, view, clock, budget, runs, crashes, providers, ticks>>

(***************************************************************************)
(* One manual scan of an organization, over every configuration.           *)
(***************************************************************************)
InitDb ==
    /\ scans = <<>>
    /\ scan_results = <<>>
    /\ idea_summaries = {}
    /\ scan_seq = 0
    /\ tx = [p \in Procs |-> EmptyTx]
    /\ wlock = NoProc
    /\ frame = [p \in Procs |-> IdleFrame]
    /\ view = IdleView
    /\ clock = 0
    /\ budget = MaxFetched
    /\ crashes = 0
    /\ call = NoCall

InitScan ==
    /\ InitDb
    /\ \E config \in Configs : scan_configs = [org \in Orgs |-> config]
    /\ schedules = [org \in Orgs |-> [interval_hours |-> 0, last_run_utc |-> NULL]]
    /\ runs = 1
    /\ ticks = 0
    /\ providers = FullWorld

NextScan ==
    \/ ManualTrigger
    \/ RunScanSteps("manual")
    \/ ManualDone

SpecScan == InitScan /\ [][NextScan]_vars

(***************************************************************************)
(* app/main.py: run_due_scans, the scheduler's tick, lines 460-480.        *)
(***************************************************************************)
\* fetch_all("SELECT * FROM schedules"): the rows as the tick read them
ScheduleRows ==
    [i \in 1..Cardinality(Orgs) |->
        [org_id |-> i, interval_hours |-> schedules[i].interval_hours,
         last_run_utc |-> schedules[i].last_run_utc]]

delta_hours(now, last_dt) == now - last_dt

\* a variant whose comparison also skips the hour the interval ends
Due_strict(schedule, now) ==
    IF schedule.interval_hours <= 0 THEN FALSE
    ELSE IF schedule.last_run_utc # NULL
            /\ delta_hours(now, fromisoformat(schedule.last_run_utc)) <= schedule.interval_hours
    THEN FALSE
    ELSE TRUE

\* lines 463-474: whether the loop body reaches the try block for a row
Due(schedule, now) ==
    IF schedule.interval_hours <= 0 THEN FALSE
    ELSE IF schedule.last_run_utc # NULL
            /\ delta_hours(now, fromisoformat(schedule.last_run_utc)) < schedule.interval_hours
    THEN FALSE
    ELSE TRUE

TickStart ==
    /\ frame["tick"].pc = "idle"
    /\ ticks > 0
    /\ ticks' = ticks - 1
    /\ Step("tick", [IdleFrame EXCEPT !.pc = "loop", !.idx = 1, !.sched = ScheduleRows,
                                       !.ran = frame["tick"].ran])
    /\ UNCHANGED <<call, db, tx, wlock, view, clock, budget, runs, crashes, providers>>

\* ran notes, for each row the scheduler has evaluated so far, the row, the
\* time now and what became of it
Evaluated(schedule, now, result) ==
    [org_id |-> schedule.org_id, interval_hours |-> schedule.interval_hours,
     last_run_utc |-> schedule.last_run_utc, now |-> now, result |-> result]

\* one iteration up to the try block
TickLoop ==
    LET f == frame["tick"]
    IN  /\ f.pc = "loop"
        /\ f.idx <= Len(f.sched)
        /\ LET schedule == f.sched[f.idx]
               now == clock
           IN  IF Due(schedule, now)
               THEN Step("tick", [StartScan(schedule.org_id) EXCEPT
                                    !.sched = f.sched, !.idx = f.idx, !.now = now,
                                    !.ran = Append(f.ran, Evaluated(schedule, now, "running"))])
               ELSE Step("tick", [f EXCEPT !.idx = @ + 1,
                                           !.ran = Append(@, Evaluated(schedule, now, "skipped"))])
        /\ UNCHANGED <<call, db, tx, wlock, view, clock, budget, runs, crashes, providers, ticks>>

\* the loop goes to the next row
Continue(f, result) ==
    [IdleFrame EXCEPT !.pc = "loop", !.sched = f.sched, !.idx = f.idx + 1,
                      !.ran = [f.ran EXCEPT ![Len(f.ran)].result = result]]

\* a variant that stamps the row whether or not the run returned
MarkRun_always(f) == [schedules EXCEPT ![f.org].last_run_utc = isoformat(f.now, 0)]

\* the schedules table after the try block of a run that returned or raised
MarkRun(f) ==
    IF f.pc = "returned"
    THEN [schedules EXCEPT ![f.org].last_run_utc = isoformat(f.now, 0)]
    ELSE schedules

\* run_scan_for_org returned: execute("UPDATE schedules SET last_run_utc = ?"),
\* a connection of its own that commits at once
TickUpdate ==
    LET f == frame["tick"]
    IN  /\ f.pc = "returned"
        /\ wlock = NoProc
        /\ schedules' = MarkRun(f)
        /\ Step("tick", Continue(f, "updated"))
        /\ UNCHANGED <<call, scan_configs, scans, scan_results, idea_summaries, scan_seq,
                       tx, wlock, view, clock, budget, runs, crashes, providers, ticks>>

\* the UPDATE raises (database is locked): except Exception: continue
TickUpdateError ==
    LET f == frame["tick"]
    IN  /\ f.pc = "returned"
        /\ Step("tick", Continue(f, "update_raised"))
        /\ UNCHANGED <<call, db, tx, wlock, view, clock, budget, runs, crashes, providers, ticks>>

\* run_scan_for_org raised: except Exception: continue
TickCatch ==
    LET f == frame["tick"]
    IN  /\ f.pc = "raised"
        /\ schedules' = MarkRun(f)
        /\ Step("tick", Continue(f, "raised"))
        /\ UNCHANGED <<call, scan_configs, scans, scan_results, idea_summaries, scan_seq,
                       tx, wlock, view, clock, budget, runs, crashes, providers, ticks>>

\* the loop is over and run_due_scans returns
TickEnd ==
    LET f == frame["tick"]
    IN  /\ f.pc = "loop"
        /\ f.idx > Len(f.sched)
        /\ Step("tick", [IdleFrame EXCEPT !.ran = f.ran])
        /\ UNCHANGED <<call, db, tx, wlock, view, clock, budget, runs, crashes, providers, ticks>>

\* time passes between the ticks, some hours at a time (a tick is short)
ClockSteps == {10, 14}

Tock ==
    /\ frame["tick"].pc = "idle"
    /\ \E d \in ClockSteps : clock + d <= MaxTime /\ clock' = clock + d
    /\ UNCHANGED <<call, db, tx, wlock, frame, view, budget, runs, crashes, providers, ticks>>

(***************************************************************************)
(* The scheduler over time: org 1 is scanned daily, org 2 weekly or never. *)
(***************************************************************************)
Init ==
    /\ InitDb
    /\ scan_configs = [org \in Orgs |-> XOnly]
    /\ \E weekly \in {0, 168} :
          schedules = [org \in Orgs |->
                          [interval_hours |-> IF org = 1 THEN 24 ELSE weekly,
                           last_run_utc |-> NULL]]
    /\ runs = 0
    /\ ticks = MaxTicks
    /\ providers = StillWorld

TickSteps ==
    \/ TickStart
    \/ TickLoop
    \/ RunScanSteps("tick")
    \/ TickUpdate
    \/ TickUpdateError
    \/ TickCatch
    \/ TickEnd

Next ==
    \/ TickSteps
    \/ Tock

Spec == Init /\ [][Next]_vars

(***************************************************************************)
(* A manual trigger while the scheduler's tick runs.                       *)
(***************************************************************************)
InitRace ==
    /\ InitDb
    /\ scan_configs = [org \in Orgs |-> XOnly]
    /\ \E weekly \in {0, 168} :
          schedules = [org \in Orgs |->
                          [interval_hours |-> IF org = 1 THEN 24 ELSE weekly,
                           last_run_utc |-> NULL]]
    /\ runs = 1
    /\ ticks = 1
    /\ providers = QuietWorld

NextRace ==
    \/ ManualTrigger
    \/ RunScanSteps("manual")
    \/ ManualDone
    \/ TickSteps

SpecRace == InitRace /\ [][NextRace]_vars

(***************************************************************************)
(* app/main.py: enrich_summary, scan_detail, dashboard: the readers.  Each *)
(* query is a connection of its own and sees the committed rows.           *)
(***************************************************************************)
\* a variant that asks for both thresholds
Signal_both(mentions, pay_mentions) ==
    IF pay_mentions >= 2 /\ mentions >= 12 THEN "High"
    ELSE IF pay_mentions >= 1 /\ mentions >= 5 THEN "Medium"
    ELSE "Low"

\* lines 398-405
Signal(mentions, pay_mentions) ==
    IF pay_mentions >= 2 \/ mentions >= 12 THEN "High"
    ELSE IF pay_mentions >= 1 \/ mentions >= 5 THEN "Medium"
    ELSE "Low"

\* a variant that cuts the digits after the first off
pay_ratio_floor(pay_mentions, mentions) ==
    IF mentions = 0 THEN 0 ELSE (1000 * pay_mentions) \div mentions

\* line 407: round((pay_mentions / mentions) * 100, 1) if mentions else 0.0,
\* in tenths of a percent; round() takes the nearest tenth and, of two that
\* are as near, the even one
pay_ratio(pay_mentions, mentions) ==
    IF mentions = 0 THEN 0
    ELSE LET q == (1000 * pay_mentions) \div mentions
             r == (1000 * pay_mentions) % mentions
         IN  IF 2 * r < mentions THEN q
             ELSE IF 2 * r > mentions THEN q + 1
             ELSE IF q % 2 = 0 THEN q ELSE q + 1

\* a variant that tells a fall from a rise by its size alone
Momentum_size(delta_mentions) ==
    IF delta_mentions >= 3 \/ delta_mentions <= -3 THEN "Up"
    ELSE "Flat"

\* a variant whose thresholds are strict
Momentum_strict(delta_mentions) ==
    IF delta_mentions > 3 THEN "Up"
    ELSE IF delta_mentions < -3 THEN "Down"
    ELSE "Flat"

Momentum(delta_mentions) ==
    IF delta_mentions >= 3 THEN "Up"
    ELSE IF delta_mentions <= -3 THEN "Down"
    ELSE "Flat"

\* previous_map: None, or the dict from an idea key to the previous scan's row
NoMap == [none |-> TRUE, rows |-> <<>>]

\* one row of enrich_summary
EnrichRow(row, previous_map) ==
    LET known == ~previous_map.none /\ row.idea_key \in DOMAIN previous_map.rows
        prev == previous_map.rows[row.idea_key]
    IN  [idea_key |-> row.idea_key, mentions |-> row.mentions,
         pay_mentions |-> row.pay_mentions,
         signal |-> Signal(row.mentions, row.pay_mentions),
         pay_ratio |-> pay_ratio(row.pay_mentions, row.mentions),
         delta_mentions |-> IF known THEN <<row.mentions - prev.mentions>> ELSE <<>>,
         delta_pay |-> IF known THEN <<row.pay_mentions - prev.pay_mentions>> ELSE <<>>,
         momentum |-> IF known THEN Momentum(row.mentions - prev.mentions) ELSE "New"]

enrich_summary(rows, previous_map) == {EnrichRow(row, previous_map) : row \in rows}

ScansOf(org) == {h \in Range(scans) : h.org_id = org}

\* ORDER BY created_utc DESC LIMIT 1 OFFSET k over a set of scans: the rows
\* it may return (none when the set is too small)
Newest(S, k) ==
    {h \in S : Cardinality({g \in S : Before(h.created_utc, g.created_utc)}) = k}

\* SELECT idea_key, mentions, pay_mentions FROM idea_summaries WHERE scan_id = ?
\* as the dict previous_map
PreviousMap(previous_scan) ==
    IF previous_scan.id = 0 THEN NoMap
    ELSE LET rows == {row \in idea_summaries : row.scan_id = previous_scan.id}
         IN  [none |-> FALSE,
              rows |-> [key \in {row.idea_key : row \in rows} |->
                          LET row == CHOOSE r \in rows : r.idea_key = key
                          IN  [mentions |-> row.mentions, pay_mentions |-> row.pay_mentions]]]

\* fetch_one found no row
NoScan == [id |-> 0]

Rendering(kind, org, scan_id) ==
    [kind |-> kind, pc |-> "previous", org |-> org, scan_id |-> scan_id, scan |-> NoScan,
     previous |-> NoScan, previous_map |-> NoMap, summary |-> {}, results |-> <<>>,
     warnings |-> <<>>]

\* the scan ids a request may name
ScanIds == 1..(scan_seq + 1)

\* scan_detail: SELECT * FROM scans WHERE id = ? AND org_id = ?
ScanDetailScan ==
    /\ view.kind \in {"none", "redirect"} \/ view.pc = "done"
    /\ \E org \in Orgs, scan_id \in ScanIds :
          LET found == {h \in ScansOf(org) : h.id = scan_id}
          IN  IF found = {}
              THEN view' = [Rendering("redirect", org, scan_id) EXCEPT !.pc = "done"]
              ELSE view' = [Rendering("detail", org, scan_id) EXCEPT
                              !.scan = CHOOSE h \in found : TRUE]
    /\ UNCHANGED <<call, db, tx, wlock, frame, clock, budget, runs, crashes, providers, ticks>>

\* scan_detail: the most recent scan created before this one, and its rows
ScanDetailPrevious ==
    /\ view.kind = "detail"
    /\ view.pc = "previous"
    /\ LET older == {h \in ScansOf(view.org) : Before(h.created_utc, view.scan.created_utc)}
       IN  \E previous \in (IF older = {} THEN {NoScan} ELSE Newest(older, 0)) :
              view' = [view EXCEPT !.previous = previous,
                                   !.previous_map = PreviousMap(previous),
                                   !.pc = "summary"]
    /\ UNCHANGED <<call, db, tx, wlock, frame, clock, budget, runs, crashes, providers, ticks>>

\* SELECT * FROM idea_summaries WHERE scan_id = ?, then enrich_summary
ReadSummary ==
    /\ view.kind \in {"detail", "dashboard"}
    /\ view.pc = "summary"
    /\ view' = [view EXCEPT
                  !.summary = enrich_summary({row \in idea_summaries : row.scan_id = view.scan.id},
                                             view.previous_map),
                  !.pc = IF view.kind = "detail" THEN "results" ELSE "done"]
    /\ UNCHANGED <<call, db, tx, wlock, frame, clock, budget, runs, crashes, providers, ticks>>

\* main.py: parse_json, on a column json_dumps wrote or NULL
parse_json(value) == IF value = NULL THEN NULL ELSE value[2]

\* the rows one query of scan_detail returns at most
ResultLimit == 200

RECURSIVE Drops(_, _)
\* the sets of k of the indices 1..n
Drops(n, k) ==
    IF k = 0 THEN {{}}
    ELSE {S \cup {i} : S \in Drops(n, k - 1), i \in 1..n} \ Drops(n, k - 1)

RECURSIVE Without(_, _)
\* a sequence without the elements at the indices of drop
Without(rows, drop) ==
    IF drop = {} THEN rows
    ELSE LET d == CHOOSE i \in drop : \A j \in drop : j <= i
         IN  Without(SubSeq(rows, 1, d - 1) \o SubSeq(rows, d + 1, Len(rows)), drop \ {d})

\* SELECT * FROM scan_results WHERE scan_id = ? ORDER BY score DESC LIMIT 200.
\* The score of an item is not part of the model, so of more than 200 rows
\* any may be the ones the LIMIT leaves out; results lists the rows the
\* query returned in rowid order, not in the order of the page.
LimitedResults(scan_id) ==
    LET all == SelectSeq(scan_results, LAMBDA row : row.scan_id = scan_id)
        over == IF Len(all) > ResultLimit THEN Len(all) - ResultLimit ELSE 0
    IN  {Without(all, drop) : drop \in Drops(Len(all), over)}

\* scan_detail: the results, then warnings = parse_json(scan["warnings"]) or []
ScanDetailResults ==
    /\ view.kind = "detail"
    /\ view.pc = "results"
    /\ \E results \in LimitedResults(view.scan.id) :
          view' = [view EXCEPT
                     !.results = results,
                     !.warnings = IF parse_json(view.scan.warnings) = NULL THEN <<>>
                                  ELSE parse_json(view.scan.warnings),
                     !.pc = "done"]
    /\ UNCHANGED <<call, db, tx, wlock, frame, clock, budget, runs, crashes, providers, ticks>>

\* dashboard: SELECT * FROM scans WHERE org_id = ? ORDER BY created_utc DESC LIMIT 1
DashboardLatest ==
    /\ view.kind \in {"none", "redirect"} \/ view.pc = "done"
    /\ \E org \in Orgs :
          IF ScansOf(org) = {}
          THEN view' = [Rendering("dashboard", org, 0) EXCEPT !.pc = "done"]
          ELSE \E latest \in Newest(ScansOf(org), 0) :
                  view' = [Rendering("dashboard", org, latest.id) EXCEPT !.scan = latest]
    /\ UNCHANGED <<call, db, tx, wlock, frame, clock, budget, runs, crashes, providers, ticks>>

\* dashboard: ... ORDER BY created_utc DESC LIMIT 1 OFFSET 1, and its rows
DashboardPrevious ==
    /\ view.kind = "dashboard"
    /\ view.pc = "previous"
    /\ LET second == Newest(ScansOf(view.org), 1)
       IN  \E previous \in (IF second = {} THEN {NoScan} ELSE second) :
              view' = [view EXCEPT !.previous = previous,
                                   !.previous_map = PreviousMap(previous),
                                   !.pc = "summary"]
    /\ UNCHANGED <<call, db, tx, wlock, frame, clock, budget, runs, crashes, providers, ticks>>

ReadSteps ==
    \/ ScanDetailScan
    \/ ScanDetailPrevious
    \/ ReadSummary
    \/ ScanDetailResults
    \/ DashboardLatest
    \/ DashboardPrevious

(***************************************************************************)
(* The process is killed: the open connections are gone and SQLite rolls   *)
(* their transactions back; the handlers in progress are gone with it.     *)
(***************************************************************************)
Crash ==
    /\ crashes < MaxCrashes
    /\ \E p \in Procs : frame[p].pc # "idle"
    /\ crashes' = crashes + 1
    /\ tx' = [p \in Procs |-> EmptyTx]
    /\ wlock' = NoProc
    /\ frame' = [p \in Procs |-> [IdleFrame EXCEPT !.ran = frame[p].ran]]
    /\ view' = IF view.kind \in {"none", "redirect"} \/ view.pc = "done" THEN view ELSE IdleView
    /\ UNCHANGED <<call, db, clock, budget, runs, providers, ticks>>

(***************************************************************************)
(* Manual scans, one after the other, with a reader and a crash.           *)
(***************************************************************************)
InitStore ==
    /\ InitDb
    /\ scan_configs = [org \in Orgs |-> XOnly]
    /\ schedules = [org \in Orgs |-> [interval_hours |-> 0, last_run_utc |-> NULL]]
    /\ runs = 2
    /\ ticks = 0
    /\ providers = QuietWorld

NextStore ==
    \/ ManualTrigger
    \/ RunScanSteps("manual")
    \/ ManualDone
    \/ ReadSteps
    \/ Crash

SpecStore == InitStore /\ [][NextStore]_vars

(***************************************************************************)
(* A history of scans and the pages that read it.  TrendScan is one run of *)
(* run_scan_for_org, from its first line to its return, that nothing       *)
(* interleaves with, for an organization that scans X alone; X answers     *)
(* org 1 with nothing or with the same post once or four times, and org 2  *)
(* with two posts.                                                         *)
(***************************************************************************)
TrendAnswers(org) ==
    LET pay == [text |-> tPay, fresh |-> TRUE]
        pain == [text |-> tPain, fresh |-> TRUE]
    IN  IF org = 1 THEN {<<>>, <<pay>>, <<pay, pay, pay, pay>>} ELSE {<<pay, pain>>}

TrendScan ==
    /\ Len(scans) < MaxScans
    /\ \A p \in Procs : frame[p].pc = "idle"
    /\ \E org \in Orgs :
       \E items \in TrendAnswers(org) :
          LET config == scan_configs[org]
              result == scan_x_queries(SplitClean(config.x_queries), config.x_post_limit, TRUE,
                                       <<HttpOk(WithIds(items, Len(scan_results) + 1))>>)
              f == TryAdapter(Called(StartScan(org), "X", result), "X", result, XWarning(NoExc))
              id == scan_seq + 1
          IN  /\ ~RedditOn(config) /\ XOn(config) /\ ~BskyOn(config) /\ ~MastodonOn(config)
              /\ scans' = Append(scans, ScanHeader(f, id))
              /\ scan_results' = scan_results \o [i \in 1..Len(f.rows) |-> ResultRow(id, f.rows[i])]
              /\ idea_summaries' = idea_summaries
                                   \cup {SummaryRow(id, key, f.summary[key]) : key \in DOMAIN f.summary}
              /\ scan_seq' = id
    /\ UNCHANGED <<call, scan_configs, schedules, tx, wlock, frame, view, clock, budget, runs,
                   crashes, providers, ticks>>

InitTrend ==
    /\ InitDb
    /\ scan_configs = [org \in Orgs |-> XOnly]
    /\ schedules = [org \in Orgs |-> [interval_hours |-> 0, last_run_utc |-> NULL]]
    /\ runs = 0
    /\ ticks = 0
    /\ providers = StillWorld

NextTrend ==
    \/ TrendScan
    \/ ReadSteps

SpecTrend == InitTrend /\ [][NextTrend]_vars

(***************************************************************************)
(* A busy scan and the page that reads it back.  BulkScan is one run of    *)
(* run_scan_for_org, from its first line to its return, that nothing       *)
(* interleaves with, for an organization that scans X with three queries   *)
(* and Bluesky with one; the manual trigger that called it has the values  *)
(* it returned until it answers.                                           *)
(***************************************************************************)
Busy ==
    [XOnly EXCEPT !.x_queries = <<"app for", "tool for", "budget">>, !.bsky_enabled = TRUE]

Repeat(item, n) == [i \in 1..n |-> item]

\* what X answers to the three queries and Bluesky to its one
BulkAnswers ==
    LET pay == [text |-> tPay, fresh |-> TRUE]
        app == [text |-> tApp, fresh |-> TRUE]
        pain == [text |-> tPain, fresh |-> TRUE]
    IN  {[x |-> <<HttpError(401, FALSE, {})>>, bsky |-> <<HttpOk(<<pay>>)>>],
         [x |-> <<HttpOk(<<pay, app>>), HttpOk(<<>>), HttpOk(<<pain>>)>>,
          bsky |-> <<HttpError(429, FALSE, {})>>],
         [x |-> <<HttpOk(Repeat(pay, 67)), HttpOk(Repeat(app, 67)), HttpOk(Repeat(pay, 67))>>,
          bsky |-> <<HttpError(0, FALSE, {})>>]}

\* the answers with their items numbered from first on
NumberedFrom(calls, first) ==
    [i \in 1..Len(calls) |->
        IF calls[i].status = 200
        THEN HttpOk(WithIds(calls[i].items, first + ItemsIn(SubSeq(calls, 1, i - 1))))
        ELSE calls[i]]

\* run_scan_for_org up to its write: the locals after the X and the
\* Bluesky adapter, the provider's items numbered from first on
BulkRun(org, answer, first) ==
    LET config == scan_configs[org]
        x == scan_x_queries(SplitClean(config.x_queries), config.x_post_limit, TRUE,
                            NumberedFrom(answer.x, first))
        fx == TryAdapter(Called(StartScan(org), "X", x), "X", x,
                         XWarning(IF x.ok THEN NoExc ELSE x.exc))
        bsky == scan_bsky_queries(SplitClean(config.bsky_queries),
                                  NumberedFrom(answer.bsky, first + ItemsIn(answer.x)))
    IN  TryAdapter(Called(fx, "Bluesky", bsky), "Bluesky", bsky,
                   BskyWarning(IF bsky.ok THEN NoExc ELSE bsky.exc))

BulkScan ==
    /\ runs > 0
    /\ \A p \in Procs : frame[p].pc = "idle"
    /\ \E org \in Orgs :
       \E answer \in BulkAnswers :
       \E f \in {BulkRun(org, answer, Len(scan_results) + 1)} :
          LET config == scan_configs[org]
              id == scan_seq + 1
          IN  /\ ~RedditOn(config) /\ XOn(config) /\ BskyOn(config) /\ ~MastodonOn(config)
              /\ scans' = Append(scans, ScanHeader(f, id))
              /\ scan_results' = scan_results \o [i \in 1..Len(f.rows) |-> ResultRow(id, f.rows[i])]
              /\ idea_summaries' = idea_summaries
                                   \cup {SummaryRow(id, key, f.summary[key]) : key \in DOMAIN f.summary}
              /\ scan_seq' = id
              /\ Step("manual", [f EXCEPT !.pc = "returned", !.scan_id = id])
    /\ runs' = runs - 1
    /\ UNCHANGED <<call, scan_configs, schedules, tx, wlock, view, clock, budget, crashes,
                   providers, ticks>>

InitBulk ==
    /\ InitDb
    /\ scan_configs = [org \in Orgs |-> Busy]
    /\ schedules = [org \in Orgs |-> [interval_hours |-> 0, last_run_utc |-> NULL]]
    /\ runs = 1
    /\ ticks = 0
    /\ providers = StillWorld

NextBulk ==
    \/ BulkScan
    \/ ManualDone
    \/ ReadSteps

SpecBulk == InitBulk /\ [][NextBulk]_vars

(***************************************************************************)
(* app/main.py: settings_post, lines 1061-1140, beside the manual trigger  *)
(* and the scheduler.                                                      *)
(***************************************************************************)
\* the schedule field of the form and the interval it stands for, line 1136
ScheduleChoices == {0, 24, 168}

\* get_user_org: the organization of the user who posts the form
SettingsOrgs == {1}

\* the two UPDATE statements, each a connection of its own that commits at once
SettingsPost ==
    /\ wlock = NoProc
    /\ \E org \in SettingsOrgs, config \in {XOnly, DefaultConfig}, interval_hours \in ScheduleChoices :
          /\ scan_configs' = [scan_configs EXCEPT ![org] = config]
          /\ schedules' = [schedules EXCEPT ![org].interval_hours = interval_hours]
    /\ UNCHANGED <<call, scans, scan_results, idea_summaries, scan_seq, tx, wlock, frame,
                   view, clock, budget, runs, crashes, providers, ticks>>

InitSchedule ==
    /\ InitDb
    /\ scan_configs = [org \in Orgs |-> XOnly]
    /\ schedules = [org \in Orgs |->
                       [interval_hours |-> IF org = 1 THEN 24 ELSE 0, last_run_utc |-> NULL]]
    /\ runs = 1
    /\ ticks = 1
    /\ providers = StillWorld

NextSchedule ==
    \/ ManualTrigger
    \/ RunScanSteps("manual")
    \/ ManualDone
    \/ TickSteps
    \/ Tock
    \/ SettingsPost

SpecSchedule == InitSchedule /\ [][NextSchedule]_vars

(***************************************************************************)
(* app/main.py: PERSONA_MAP, infer_persona, lines 29-38 and 352-372.       *)
(***************************************************************************)
\* lines 358-368: the persona one bucket counts for; part.lower() and
\* PERSONA_MAP.get(key, "General") for the names of the model
PersonaOf(part) ==
    CASE part \in {"query:app for", "x:app for"} -> "X audience"
      [] part = "bsky:app for" -> "Bluesky audience"
      [] part = "mastodon:app for" -> "Mastodon audience"
      [] part \in {"Entrepreneur", "startups"} -> "Founders"
      [] part = "saas" -> "SaaS founders"
      [] OTHER -> "General"

\* scores[persona] = scores.get(persona, 0) + 1: a dict keeps its keys in
\* the order they were first set
Bump(scores, persona) ==
    IF \E i \in DOMAIN scores : scores[i].persona = persona
    THEN [i \in DOMAIN scores |->
             IF scores[i].persona = persona THEN [scores[i] EXCEPT !.n = @ + 1] ELSE scores[i]]
    ELSE Append(scores, [persona |-> persona, n |-> 1])

RECURSIVE Tally(_, _)
\* the loop over the parts
Tally(scores, parts) ==
    IF parts = <<>> THEN scores
    ELSE Tally(Bump(scores, PersonaOf(Head(parts))), Tail(parts))

\* a variant of the sort that puts the last of the equal scores first
sorted_first_last(scores) ==
    scores[CHOOSE i \in DOMAIN scores :
              \A j \in DOMAIN scores :
                  scores[j].n < scores[i].n \/ (scores[j].n = scores[i].n /\ j <= i)].persona

\* sorted(scores.items(), key=lambda item: item[1], reverse=True)[0][0]:
\* the sort is stable, also in reverse
sorted_first(scores) ==
    scores[CHOOSE i \in DOMAIN scores :
              \A j \in DOMAIN scores :
                  scores[j].n < scores[i].n \/ (scores[j].n = scores[i].n /\ j >= i)].persona

\* subreddits_text is the sequence of the entries between its semicolons
infer_persona(subreddits_text) ==
    IF subreddits_text = <<"">> THEN "General"
    ELSE LET parts == SplitClean(subreddits_text)
             scores == Tally(<<>>, parts)
         IN  IF scores = <<>> THEN "General" ELSE sorted_first(scores)

(***************************************************************************)
(* app/main.py: build_problem_statement, build_mvp_angle.  An f-string is  *)
(* the sequence of its parts.                                              *)
(***************************************************************************)
\* persona.lower() of the personas infer_persona returns
LowerPersona(persona) ==
    CASE persona = "General" -> "general"
      [] persona = "Bluesky audience" -> "bluesky audience"
      [] persona = "Founders" -> "founders"
      [] OTHER -> persona

build_problem_statement(key, persona) ==
    IF key = "uncategorized"
    THEN <<persona, " report recurring workflow friction that currently lacks a simple tool.">>
    ELSE <<persona, " struggle with ", key, " and want a faster, simpler workflow.">>

build_mvp_angle(key, persona) ==
    IF key = "uncategorized"
    THEN <<"Start with a focused capture + automation flow for ", LowerPersona(persona), ".">>
    ELSE <<"Ship a lightweight tool that solves ", key, " for ", LowerPersona(persona),
           " with a 5-minute setup.">>

(***************************************************************************)
(* The helpers, each called on its own with arguments from a bounded set.  *)
(***************************************************************************)
\* words a text is made of: capitalised, a stop word, a word of three
\* letters, a token with characters that are no letters
KeyTokens == {"Budget", "budget", "tracker", "this", "pay", "app\\b", "invoice"}

\* seven words that are kept, all different
SevenWords == <<"expense", "tracking", "budget", "tracker", "invoice", "billing", "payroll">>

\* a few words, or a few words followed by the seven
KeyTexts ==
    {prefix \o rest : prefix \in SeqsUpTo(KeyTokens, MaxWords), rest \in {<<>>, SevenWords}}

IdeaKeyCall ==
    /\ call = NoCall
    /\ \E text \in KeyTexts :
          call' = [fn |-> "idea_key", text |-> text, key |-> idea_key(text)]
    /\ UNCHANGED program

\* texts to classify: the sentence of the documentation's example, one text
\* for every group, and a text for two groups
ClassifyTexts == {tPlain, tPay, tApp, tPain, tPay \o tApp, <<"budget", "tracker">>}

\* match_groups(text, compiled) and the row an adapter builds from the item
ClassifyCall ==
    /\ call = NoCall
    /\ \E text \in ClassifyTexts, source \in {"X", "Bluesky", "Mastodon"} :
          LET item == [id |-> "1", text |-> text, fresh |-> TRUE]
          IN  call' = [fn |-> "match_groups", text |-> text, source |-> source,
                       groups |-> match_groups(text, compile_patterns),
                       rows |-> OneItem(EmptyAcc, source, "app for", "post", item, 7).rows]
    /\ UNCHANGED program

\* the counts of the rows enrich_summary is called with
MaxMentions == 13

MaxPay == 3

\* previous_map: None, a dict without the row's key, a dict with it
PreviousMaps(key) ==
    {NoMap, [none |-> FALSE, rows |-> [k \in {"other"} |-> [mentions |-> 1, pay_mentions |-> 0]]]}
    \cup {[none |-> FALSE, rows |-> [k \in {key} |-> [mentions |-> m, pay_mentions |-> p]]] :
             m \in 0..MaxMentions, p \in 0..MaxPay}

\* enrich_summary on one row
EnrichCall ==
    /\ call = NoCall
    /\ \E mentions \in 0..MaxMentions, pay_mentions \in 0..MaxPay :
          LET row == [idea_key |-> "budget tracker", mentions |-> mentions,
                      pay_mentions |-> pay_mentions]
          IN  \E previous_map \in PreviousMaps(row.idea_key) :
                 call' = [fn |-> "enrich_summary", row |-> row, previous_map |-> previous_map,
                          enriched |-> EnrichRow(row, previous_map)]
    /\ UNCHANGED program

\* the items of one provider answer
AnswerTexts == {tPay, tApp, tPain, tPlain}

\* an adapter's summary of one answer, as enrich_summary renders it
SummaryCall ==
    /\ call = NoCall
    /\ \E texts \in SeqsUpTo(AnswerTexts, 3) :
          LET items == WithIds([i \in 1..Len(texts) |-> [text |-> texts[i], fresh |-> TRUE]], 1)
              acc == Items(EmptyAcc, "X", "app for", "post", items, 7)
              rows == {[idea_key |-> key, mentions |-> acc.summary[key].mentions,
                        pay_mentions |-> acc.summary[key].pay_mentions] :
                          key \in DOMAIN acc.summary}
          IN  call' = [fn |-> "summary", items |-> items, rows |-> acc.rows,
                       enriched |-> enrich_summary(rows, NoMap)]
    /\ UNCHANGED program

\* the statuses a provider refuses a request with
ErrorStatuses == {401, 403, 429, 500}

\* the answers that are no page: a status, for X a payload that mentions
\* credits or not, and a response text with the digits 401 in it or not
ErrorAnswers(source) ==
    {HttpError(status, credits, body) :
        status \in ErrorStatuses,
        credits \in (IF source = "X" THEN BOOLEAN ELSE {FALSE}),
        body \in {{}, {"401"}}}

\* an adapter whose first request is refused, or, for X, that finds no
\* X_BEARER_TOKEN, and the except block of run_scan_for_org around it
WarningCall ==
    /\ call = NoCall
    /\ \E source \in {"X", "Bluesky", "Mastodon"} :
       \E answer \in ErrorAnswers(source), token \in (IF source = "X" THEN BOOLEAN ELSE {TRUE}) :
          LET result == CASE source = "X" -> scan_x_queries(<<"app for">>, 100, token, <<answer>>)
                          [] source = "Bluesky" -> scan_bsky_queries(<<"app for">>, <<answer>>)
                          [] OTHER -> scan_mastodon_queries(<<"app for">>, 7, <<answer>>)
              warning == CASE source = "X" -> XWarning(result.exc)
                           [] source = "Bluesky" -> BskyWarning(result.exc)
                           [] OTHER -> MastodonWarning(result.exc)
          IN  call' = [fn |-> "warning", source |-> source, token |-> token, answer |-> answer,
                       exc |-> result.exc, warning |-> warning]
    /\ UNCHANGED program

\* words of the texts whose key goes into the statements: a word that is
\* kept, the word the sentinel is spelled with, a stop word, a short token
StatementTokens == {"Uncategorized", "uncategorized", "expenses", "this", "app\\b"}

\* idea_key of a text, and the statements enrich_summary builds from the key
StatementCall ==
    /\ call = NoCall
    /\ \E text \in SeqsUpTo(StatementTokens, MaxWords), persona \in {"General", "Bluesky audience"} :
          call' = [fn |-> "build_problem_statement", text |-> text, persona |-> persona,
                   key |-> idea_key(text),
                   problem_statement |-> build_problem_statement(idea_key(text), persona),
                   mvp_angle |-> build_mvp_angle(idea_key(text), persona)]
    /\ UNCHANGED program

\* the buckets infer_persona is called with
MaxBuckets == 3

BucketNames ==
    {"Entrepreneur", "startups", "saas", "cooking", "query:app for", "bsky:app for",
     "mastodon:app for", " "}

InferPersonaCall ==
    /\ call = NoCall
    /\ \E text \in SeqsUpTo(BucketNames, MaxBuckets) \cup {<<"">>} :
          call' = [fn |-> "infer_persona", text |-> text, persona |-> infer_persona(text)]
    /\ UNCHANGED program

\* the elements of the listing scan_subreddits is called with
MaxListing == 3

ListingKinds ==
    {[kind |-> k, text |-> t, fresh |-> TRUE] :
        k \in {"submission", "comment"}, t \in {tPay, tApp, tPain, tPay \o tApp}}

\* scan_subreddits on one subreddit, with every comment asked for
RedditCall ==
    /\ call = NoCall
    /\ \E kinds \in SeqsUpTo(ListingKinds, MaxListing), require_app_request \in BOOLEAN :
          LET listing == WithIds(kinds, 1)
          IN  call' = [fn |-> "scan_subreddits", listing |-> listing,
                       require_app_request |-> require_app_request,
                       result |-> scan_subreddits(TRUE, <<"Entrepreneur">>, <<HttpOk(listing)>>,
                                                  TRUE, 0, require_app_request)]
    /\ UNCHANGED program

InitCalls ==
    /\ InitDb
    /\ scan_configs = [org \in Orgs |-> DefaultConfig]
    /\ schedules = [org \in Orgs |-> [interval_hours |-> 0, last_run_utc |-> NULL]]
    /\ runs = 0
    /\ ticks = 0
    /\ providers = StillWorld

NextCalls ==
    \/ IdeaKeyCall
    \/ ClassifyCall
    \/ EnrichCall
    \/ SummaryCall
    \/ WarningCall
    \/ InferPersonaCall
    \/ RedditCall
    \/ StatementCall

SpecCalls == InitCalls /\ [][NextCalls]_vars

(***************************************************************************)
(* app/x_scanning.py: fetch_recent_tweets, the loop over the pages, lines  *)
(* 42-81.  A provider answer is an error, or a page: the tweets of its     *)
(* "data" and, in its "meta", a next_token or none.  A next_token is a     *)
(* cursor: the provider never hands out the one it was just sent.          *)
(***************************************************************************)
\* the largest limit fetch_recent_tweets is called with
MaxLimit == 3

\* the most tweets on one page
MaxPage == 2

\* x_post_limit is an integer of the settings form
Limits == -1..MaxLimit

Tweets == {"t1", "t2"}

Pages == SeqsUpTo(Tweets, MaxPage)

Cursors == {"c1", "c2"}

\* collected[:limit]: a negative limit counts from the end
Slice(collected, limit) ==
    IF limit >= 0 THEN SubSeq(collected, 1, Min(limit, Len(collected)))
    ELSE SubSeq(collected, 1, Max(Len(collected) + limit, 0))

\* lines 38-40: collected = [], next_token = None, before the first request
FetchStart ==
    /\ call = NoCall
    /\ \E limit \in Limits :
          call' = [fn |-> "fetch_recent_tweets", pc |-> "request", limit |-> limit,
                   collected |-> <<>>, next_token |-> NULL, result |-> <<>>]
    /\ UNCHANGED program

\* one pass of the loop with an answer of status 200: lines 43-45 and
\* 61-79, and line 81 when the loop breaks
FetchPage ==
    /\ call.fn = "fetch_recent_tweets"
    /\ call.pc = "request"
    /\ \E data \in Pages, next_token \in {NULL} \cup (Cursors \ {call.next_token}) :
          LET collected == call.collected \o data
          IN  call' = IF next_token = NULL \/ Len(collected) >= call.limit
                      THEN [call EXCEPT !.pc = "returned", !.collected = collected,
                                        !.next_token = next_token,
                                        !.result = Slice(collected, call.limit)]
                      ELSE [call EXCEPT !.collected = collected, !.next_token = next_token]
    /\ UNCHANGED program

\* one pass of the loop with another status, or a request that times out:
\* lines 46-59 raise
FetchError ==
    /\ call.fn = "fetch_recent_tweets"
    /\ call.pc = "request"
    /\ call' = [call EXCEPT !.pc = "raised"]
    /\ UNCHANGED program

NextFetch ==
    \/ FetchStart
    \/ FetchPage
    \/ FetchError

\* the function runs on, and every request is answered or times out
SpecFetch == InitCalls /\ [][NextFetch]_vars /\ WF_vars(NextFetch)

(***************************************************************************)
(* app/main.py: ensure_org_config, called by two requests at once.  The    *)
(* tables scan_configs and schedules are here the rows stored under each   *)
(* org_id, none or one: org_id is the PRIMARY KEY of both.  Every          *)
(* fetch_one and every execute is a connection of its own, committed when  *)
(* it returns, so each is one step.                                        *)
(***************************************************************************)
Callers == {1, 2}

\* the row of lines 121-127: interval 0, no last run
DefaultSchedule == [interval_hours |-> 0, last_run_utc |-> NULL]

\* what an organization can have when a request arrives: nothing, a
\* configuration alone (the two INSERTs are two transactions), or both
Stored == {[config |-> <<>>, schedule |-> <<>>],
           [config |-> <<DefaultConfig>>, schedule |-> <<>>],
           [config |-> <<DefaultConfig>>, schedule |-> <<DefaultSchedule>>]}

IdleCaller == [pc |-> "idle", org_id |-> 0, config |-> <<>>, schedule |-> <<>>,
               result |-> <<>>, exc |-> ""]

Ensuring == call.fn = "ensure_org_config"

\* execute("INSERT INTO ..."): a second row under the same primary key
\* raises sqlite3.IntegrityError and changes nothing
execute_insert(table, org_id, row) ==
    IF table[org_id] # <<>>
    THEN [ok |-> FALSE, exc |-> "sqlite3.IntegrityError", table |-> table]
    ELSE [ok |-> TRUE, exc |-> "", table |-> [table EXCEPT ![org_id] = <<row>>]]

\* the database as the two requests find it
EnsureOpen ==
    /\ call = NoCall
    /\ \E stored \in [Orgs -> Stored] :
          LET tables == [scan_configs |-> [org \in Orgs |-> stored[org].config],
                         schedules |-> [org \in Orgs |-> stored[org].schedule]]
          IN  call' = [fn |-> "ensure_org_config", before |-> tables,
                       scan_configs |-> tables.scan_configs, schedules |-> tables.schedules,
                       callers |-> [c \in Callers |-> IdleCaller]]
    /\ UNCHANGED program

\* line 68: config = fetch_one("SELECT * FROM scan_configs WHERE org_id = ?")
EnsureFetchConfig(c) ==
    /\ Ensuring
    /\ call.callers[c].pc = "idle"
    /\ \E org_id \in Orgs :
          call' = [call EXCEPT !.callers[c] =
                      [@ EXCEPT !.pc = "fetch_schedule", !.org_id = org_id,
                                !.config = call.scan_configs[org_id]]]
    /\ UNCHANGED program

\* lines 69-83: schedule = fetch_one(...), and the branch taken
EnsureFetchSchedule(c) ==
    /\ Ensuring
    /\ call.callers[c].pc = "fetch_schedule"
    /\ LET me == call.callers[c]
           schedule == call.schedules[me.org_id]
       IN  call' = [call EXCEPT !.callers[c] =
                      IF me.config # <<>> /\ schedule # <<>>
                      THEN [me EXCEPT !.pc = "returned", !.schedule = schedule,
                                      !.result = me.config]
                      ELSE IF me.config # <<>>
                      THEN [me EXCEPT !.pc = "insert_schedule", !.schedule = schedule]
                      ELSE [me EXCEPT !.pc = "insert_config", !.schedule = schedule]]
    /\ UNCHANGED program

\* lines 72-81: config and not schedule
EnsureInsertSchedule(c) ==
    /\ Ensuring
    /\ call.callers[c].pc = "insert_schedule"
    /\ LET me == call.callers[c]
       IN  \E done \in {execute_insert(call.schedules, me.org_id, DefaultSchedule)} :
              call' = [call EXCEPT
                          !.schedules = done.table,
                          !.callers[c] =
                              IF done.ok THEN [me EXCEPT !.pc = "returned", !.result = me.config]
                              ELSE [me EXCEPT !.pc = "raised", !.exc = done.exc]]
    /\ UNCHANGED program

\* lines 83-120: INSERT INTO scan_configs the default row
EnsureInsertConfig(c) ==
    /\ Ensuring
    /\ call.callers[c].pc = "insert_config"
    /\ LET me == call.callers[c]
       IN  \E done \in {execute_insert(call.scan_configs, me.org_id, DefaultConfig)} :
              call' = [call EXCEPT
                          !.scan_configs = done.table,
                          !.callers[c] =
                              IF done.ok THEN [me EXCEPT !.pc = "insert_default_schedule"]
                              ELSE [me EXCEPT !.pc = "raised", !.exc = done.exc]]
    /\ UNCHANGED program

\* lines 121-127: INSERT INTO schedules after the configuration
EnsureInsertDefaultSchedule(c) ==
    /\ Ensuring
    /\ call.callers[c].pc = "insert_default_schedule"
    /\ LET me == call.callers[c]
       IN  \E done \in {execute_insert(call.schedules, me.org_id, DefaultSchedule)} :
              call' = [call EXCEPT
                          !.schedules = done.table,
                          !.callers[c] =
                              IF done.ok THEN [me EXCEPT !.pc = "fetch_result"]
                              ELSE [me EXCEPT !.pc = "raised", !.exc = done.exc]]
    /\ UNCHANGED program

\* line 128: return fetch_one("SELECT * FROM scan_configs WHERE org_id = ?")
EnsureReturn(c) ==
    /\ Ensuring
    /\ call.callers[c].pc = "fetch_result"
    /\ call' = [call EXCEPT !.callers[c] =
                   [@ EXCEPT !.pc = "returned", !.result = call.scan_configs[call.callers[c].org_id]]]
    /\ UNCHANGED program

NextEnsure ==
    \/ EnsureOpen
    \/ \E c \in Callers : EnsureFetchConfig(c)
    \/ \E c \in Callers : EnsureFetchSchedule(c)
    \/ \E c \in Callers : EnsureInsertSchedule(c)
    \/ \E c \in Callers : EnsureInsertConfig(c)
    \/ \E c \in Callers : EnsureInsertDefaultSchedule(c)
    \/ \E c \in Callers : EnsureReturn(c)

SpecEnsure == InitCalls /\ [][NextEnsure]_vars

(***************************************************************************)
(* The committed rows of one scan, as another connection reads them.       *)
(***************************************************************************)
Persisted(id) == \E h \in Range(scans) : h.id = id

ScanRow(id) == CHOOSE h \in Range(scans) : h.id = id

ResultsOf(id) == SelectSeq(scan_results, LAMBDA row : row.scan_id = id)

SummariesOf(id) == {row \in idea_summaries : row.scan_id = id}

RowsFrom(rows, source) == SelectSeq(rows, LAMBDA row : row.source = source)

json_loads(column) == IF column = NULL THEN <<>> ELSE column[2]

MentionsOf(id) ==
    LET S == SummariesOf(id)
        keys == {row.idea_key : row \in S}
        of(key) == CHOOSE row \in S : row.idea_key = key
    IN  SumOver([key \in keys |-> of(key).mentions], keys)

SourceOn(config, src) ==
    CASE src = "Reddit" -> RedditOn(config)
      [] src = "X" -> XOn(config)
      [] src = "Bluesky" -> BskyOn(config)
      [] OTHER -> MastodonOn(config)

RaisedIn(f) == {src \in SourceSet : f.outcome[src] = "raised"}

ReturnedIn(f) == {src \in SourceSet : f.outcome[src] = "returned"}

BucketsOk(summary) ==
    \A key \in DOMAIN summary : summary[key].pay_mentions <= summary[key].mentions

(***************************************************************************)
(* Properties of one scan (SpecScan).                                      *)
(***************************************************************************)
\* C1: when a source adapter raises, run_scan_for_org goes on: a warning
\* that names the source is recorded, the source contributes no row, every
\* other enabled source is still called and the rows it matched are kept,
\* and the scan is persisted and its id returned.
C1_ErrorIsolation ==
    \A p \in Procs :
        LET f == frame[p]
        IN  \A src \in RaisedIn(f) :
                /\ f.pc \in {"x", "bsky", "mastodon"} \cup WritePcs \cup {"returned"}
                /\ \E i \in 1..Len(f.warnings) : f.warnings[i].words[1] = src
                /\ RowsFrom(f.rows, src) = <<>>
                /\ f.stats[src] = ZeroStats
                /\ f.pc \in WritePcs \cup {"returned"} =>
                      \A other \in SourceSet \ {src} :
                          /\ SourceOn(f.config, other) => f.outcome[other] # "skipped"
                          /\ f.outcome[other] = "returned" =>
                                Len(RowsFrom(f.rows, other)) = f.stats[other].matched
                /\ f.pc = "returned" =>
                      /\ Persisted(f.scan_id)
                      /\ \E w \in Range(json_loads(ScanRow(f.scan_id).warnings)) : w.words[1] = src
                      /\ RowsFrom(ResultsOf(f.scan_id), src) = <<>>
                      /\ \A other \in SourceSet \ {src} :
                            RowsFrom(ResultsOf(f.scan_id), other) =
                                [i \in 1..Len(RowsFrom(f.rows, other)) |->
                                    ResultRow(f.scan_id, RowsFrom(f.rows, other)[i])]

\* a scan returned in which X raised and another source's matched row is stored
C1_Witness ==
    LET f == frame["manual"]
    IN  /\ f.pc = "returned"
        /\ f.outcome["X"] = "raised"
        /\ \E other \in SourceSet : f.outcome[other] = "returned" /\ f.stats[other].matched > 0
        /\ ResultsOf(f.scan_id) # <<>>

\* C2: for every persisted scan, the mentions of its idea_summaries rows add
\* up to the number of its scan_results rows.
C2_MentionsAddUp ==
    \A h \in Range(scans) : MentionsOf(h.id) = Len(ResultsOf(h.id))

\* a persisted scan whose one idea was mentioned by two sources
C2_Witness ==
    \E h \in Range(scans) :
        /\ Len(ResultsOf(h.id)) >= 2
        /\ \E row \in SummariesOf(h.id) : Cardinality(row.sources) >= 2 /\ row.mentions >= 2

\* C3: pay_mentions never exceeds mentions in any bucket: in the summary an
\* adapter returns, in the scan's summary after each merge (and after
\* merging the partial summaries the other way round), and in the rows
\* written to idea_summaries.
C3_PayWithinMentions ==
    /\ \A p \in Procs :
          /\ BucketsOk(frame[p].part)
          /\ BucketsOk(frame[p].summary)
          /\ BucketsOk(merge_summaries(frame[p].part, frame[p].summary))
          /\ \A row \in tx[p].idea_summaries : row.pay_mentions <= row.mentions
    /\ \A row \in idea_summaries : row.pay_mentions <= row.mentions

\* two sources mentioned the same idea, one of them with willingness to pay
C3_Witness ==
    /\ \E key \in DOMAIN frame["manual"].summary :
          LET bucket == frame["manual"].summary[key]
          IN  bucket.pay_mentions >= 1 /\ bucket.mentions >= 2 /\ Cardinality(bucket.sources) >= 2
    /\ \E row \in idea_summaries : row.pay_mentions >= 1

\* C10: when every source that was attempted raised, the scan is still
\* persisted and its id returned: it has no scan_results and no
\* idea_summaries rows, all its fetched and matched counts are 0, and its
\* warnings list has one entry per failed source.
C10_AllSourcesFail ==
    \A p \in Procs :
        LET f == frame[p]
        IN  (f.pc = "returned" /\ RaisedIn(f) # {} /\ ReturnedIn(f) = {}) =>
                /\ Persisted(f.scan_id)
                /\ ResultsOf(f.scan_id) = <<>>
                /\ SummariesOf(f.scan_id) = {}
                /\ \A src \in SourceSet :
                      /\ ScanRow(f.scan_id).fetched[src] = 0
                      /\ ScanRow(f.scan_id).matched[src] = 0
                /\ ScanRow(f.scan_id).warnings # NULL
                /\ Len(json_loads(ScanRow(f.scan_id).warnings)) = Cardinality(RaisedIn(f))
                /\ \A src \in RaisedIn(f) :
                      \E w \in Range(json_loads(ScanRow(f.scan_id).warnings)) : w.words[1] = src

\* all four sources were attempted and all four raised
C10_Witness ==
    LET f == frame["manual"]
    IN  /\ f.pc = "returned"
        /\ RaisedIn(f) = SourceSet
        /\ Persisted(f.scan_id)

(***************************************************************************)
(* Properties of the trend pages (SpecTrend).                              *)
(***************************************************************************)
ViewDone == view.kind \in {"detail", "dashboard"} /\ view.pc = "done" /\ view.scan.id # 0

\* the scans of an organization created before a scan
PriorScans(org, scan) == {h \in ScansOf(org) : Before(h.created_utc, scan.created_utc)}

\* the scan immediately before a scan, or NoScan
Preceding(org, scan) ==
    IF PriorScans(org, scan) = {} THEN NoScan
    ELSE CHOOSE h \in PriorScans(org, scan) :
            \A g \in PriorScans(org, scan) : ~Before(h.created_utc, g.created_utc)

KeysOf(id) == {row.idea_key : row \in SummariesOf(id)}

SummaryOf(id, key) == CHOOSE row \in SummariesOf(id) : row.idea_key = key

\* C4 as the specification states it: an idea of a rendered scan is "New"
\* exactly when no earlier scan of the organization has its key, and is
\* otherwise Up, Down or Flat by the thresholds of 3 mentions.
C4_NewIffNoPriorScan ==
    ViewDone =>
        \A row \in view.summary :
            /\ row.momentum = "New" <=>
                  \A h \in PriorScans(view.org, view.scan) : row.idea_key \notin KeysOf(h.id)
            /\ row.momentum # "New" =>
                  /\ row.delta_mentions # <<>>
                  /\ row.momentum = (IF row.delta_mentions[1] >= 3 THEN "Up"
                                     ELSE IF row.delta_mentions[1] <= -3 THEN "Down" ELSE "Flat")

\* C4, amended: an idea of a rendered scan is "New" exactly when the scan
\* the page compares with has no entry for its key, or there is no such
\* scan; otherwise it is Up, Down or Flat as its mentions minus that scan's
\* are >= 3, <= -3 or in between.  scan_detail compares with the scan of
\* the organization created immediately before the rendered one; so does
\* the dashboard when no scan was committed since it read the latest scan.
C4_NewIffNotInPreceding ==
    ViewDone =>
        /\ view.kind = "detail" => view.previous = Preceding(view.org, view.scan)
        /\ (view.kind = "dashboard" /\ Newest(ScansOf(view.org), 0) = {view.scan}) =>
              view.previous = Preceding(view.org, view.scan)
        /\ view.previous.id # 0 => view.previous \in ScansOf(view.org)
        /\ {row.idea_key : row \in view.summary} = KeysOf(view.scan.id)
        /\ \A row \in view.summary :
              LET known == view.previous.id # 0 /\ row.idea_key \in KeysOf(view.previous.id)
                  delta == row.mentions - SummaryOf(view.previous.id, row.idea_key).mentions
              IN  /\ row.momentum = "New" <=> ~known
                  /\ known =>
                        /\ row.delta_mentions = <<delta>>
                        /\ row.momentum = (IF delta >= 3 THEN "Up"
                                           ELSE IF delta <= -3 THEN "Down" ELSE "Flat")

\* the third scan of org 1 has a key again that its first scan had and its
\* second had not: scan_detail renders it as "New"
C4_Witness ==
    /\ ViewDone
    /\ view.kind = "detail"
    /\ view.previous.id # 0
    /\ \E row \in view.summary :
          /\ row.momentum = "New"
          /\ \E h \in PriorScans(view.org, view.scan) : row.idea_key \in KeysOf(h.id)

(***************************************************************************)
(* Properties of the scheduler (Spec).                                     *)
(***************************************************************************)
TickLog == frame["tick"].ran

MaxOf(S) == CHOOSE x \in S : \A y \in S : y <= x

\* the last_run_utc the scheduler's successful runs leave for an organization
LastStamp(org) ==
    LET I == {i \in DOMAIN TickLog : TickLog[i].org_id = org /\ TickLog[i].result = "updated"}
    IN  IF I = {} THEN NULL ELSE isoformat(TickLog[MaxOf(I)].now, 0)

ScansBy(org, results) ==
    Cardinality({i \in DOMAIN TickLog : TickLog[i].org_id = org /\ TickLog[i].result \in results})

\* C5: the scheduler stamps an organization's last_run_utc only after its
\* run returned; after a run that raised the row is as it was, the
\* organization is taken as due the next time it is evaluated, and the tick
\* goes on to the organizations after it.
C5_LastRunOnSuccessOnly ==
    /\ \A org \in Orgs :
          /\ schedules[org].last_run_utc = LastStamp(org)
          /\ Cardinality(ScansOf(org)) =
                ScansBy(org, {"updated", "update_raised"})
                + (IF frame["tick"].pc = "returned" /\ frame["tick"].org = org THEN 1 ELSE 0)
    /\ \A i \in DOMAIN TickLog :
          /\ TickLog[i].org_id = ((i - 1) % Cardinality(Orgs)) + 1
          /\ TickLog[i].result = "raised" =>
                \A j \in DOMAIN TickLog :
                    (j > i /\ TickLog[j].org_id = TickLog[i].org_id
                     /\ \A k \in (i + 1)..(j - 1) : TickLog[k].org_id # TickLog[i].org_id) =>
                        /\ TickLog[j].last_run_utc = TickLog[i].last_run_utc
                        /\ TickLog[j].result # "skipped"
    /\ frame["tick"].pc = "idle" => Len(TickLog) % Cardinality(Orgs) = 0

\* the run for org 1 raised, the tick went on to org 2 and scanned it, and
\* the next tick runs org 1 again
C5_Witness ==
    \E i \in DOMAIN TickLog :
        /\ TickLog[i].org_id = 1
        /\ TickLog[i].result = "raised"
        /\ i + 2 \in DOMAIN TickLog
        /\ TickLog[i + 1].result = "updated"
        /\ TickLog[i + 2].result = "running"
        /\ schedules[1].last_run_utc = NULL

\* C6: the scheduler runs the scan of an organization exactly when its
\* interval is not 0 and it has never run or at least interval hours have
\* passed since last_run_utc; an organization with interval 0 is never
\* scanned.
C6_ScannedIffDue ==
    /\ \A i \in DOMAIN TickLog :
          LET e == TickLog[i]
          IN  e.result # "skipped" <=>
                 /\ e.interval_hours # 0
                 /\ \/ e.last_run_utc = NULL
                    \/ e.now - fromisoformat(e.last_run_utc) >= e.interval_hours
    /\ \A h \in Range(scans) : schedules[h.org_id].interval_hours # 0
    /\ frame["tick"].pc \notin {"idle", "loop"} =>
          /\ TickLog[Len(TickLog)].org_id = frame["tick"].org
          /\ TickLog[Len(TickLog)].result = "running"

\* org 1, scanned every 24 hours, was skipped 10 hours after its last run
\* and is run 30 hours after it; org 2, with interval 0, was skipped
C6_Witness ==
    \E i, j, k \in DOMAIN TickLog :
        /\ TickLog[i].interval_hours = 24 /\ TickLog[i].last_run_utc # NULL
        /\ TickLog[i].now - fromisoformat(TickLog[i].last_run_utc) = 10
        /\ TickLog[i].result = "skipped"
        /\ TickLog[j].interval_hours = 24 /\ TickLog[j].last_run_utc # NULL
        /\ TickLog[j].now - fromisoformat(TickLog[j].last_run_utc) = 30
        /\ TickLog[j].result = "running"
        /\ TickLog[k].interval_hours = 0 /\ TickLog[k].result = "skipped"

(***************************************************************************)
(* Properties of the store (SpecStore, SpecRace).                          *)
(***************************************************************************)
SumMatched(h) == SumOver([src \in SourceSet |-> h.matched[src]], SourceSet)

\* a scan a reader can see is whole
Whole(h, results, summaries) ==
    /\ Len(results) = SumMatched(h)
    /\ {results[i].idea_key : i \in DOMAIN results} = {row.idea_key : row \in summaries}
    /\ \A row \in summaries :
          row.mentions = Cardinality({i \in DOMAIN results : results[i].idea_key = row.idea_key})

\* C7: a reader sees nothing of a scan or all of it: every row of
\* scan_results and idea_summaries that is committed belongs to a committed
\* header that has all its rows, whatever step the write is at and after a
\* crash, and a page that found the header renders all its rows.
C7_AtomicPersistence ==
    /\ \A i \in DOMAIN scan_results : Persisted(scan_results[i].scan_id)
    /\ \A row \in idea_summaries : Persisted(row.scan_id)
    /\ \A h \in Range(scans) : Whole(h, ResultsOf(h.id), SummariesOf(h.id))
    /\ (view.kind = "detail" /\ view.pc = "done") =>
          /\ Whole(view.scan, view.results, view.summary)
          /\ view.results = ResultsOf(view.scan.id)
    /\ view.kind = "redirect" => view.summary = {} /\ view.results = <<>>

\* after a crash, a page asked for the scan that is being written, header
\* and rows uncommitted, and found nothing
C7_Witness ==
    /\ crashes = 1
    /\ frame["manual"].pc = "commit"
    /\ tx["manual"].scan_results # <<>>
    /\ view.kind = "redirect"
    /\ view.scan_id = frame["manual"].scan_id

\* C8: when a statement of the write or its commit fails, run_scan_for_org
\* raises to its caller and returns no id, and the store is as it was
\* before the write: no row of the scan is in it.
C8_WriteFailureRaises ==
    [][\A p \in Procs :
          (frame[p].pc \in WritePcs /\ frame'[p].pc \notin WritePcs \cup {"returned"}) =>
              /\ frame'[p].pc = "raised"
              /\ frame'[p].scan_id = 0
              /\ <<scans, scan_results, idea_summaries, scan_seq>>' =
                    <<scans, scan_results, idea_summaries, scan_seq>>
              /\ tx'[p] = EmptyTx
              /\ wlock' # p]_vars

\* the manual run raised after it had written its header and rows; the
\* store holds the tick's scan alone
C8_Witness ==
    /\ frame["manual"].pc = "raised"
    /\ frame["tick"].pc = "returned"
    /\ Len(scans) = 1
    /\ Len(scan_results) = SumMatched(scans[1])
    /\ scan_results # <<>>

\* C9: the runs of the manual trigger and of the tick get different scan
\* ids, also for one organization, and the rows stored under the id of a
\* run are the rows that run produced, all of them and no others.
C9_ConcurrentRunsApart ==
    /\ \A i, j \in DOMAIN scans : i # j => scans[i].id # scans[j].id
    /\ \A p, q \in Procs :
          (p # q /\ frame[p].scan_id # 0 /\ frame[q].scan_id # 0) =>
              frame[p].scan_id # frame[q].scan_id
    /\ \A p \in Procs :
          LET f == frame[p]
          IN  f.pc = "returned" =>
                /\ Persisted(f.scan_id)
                /\ ScanRow(f.scan_id).org_id = f.org
                /\ ResultsOf(f.scan_id) = [i \in 1..Len(f.rows) |-> ResultRow(f.scan_id, f.rows[i])]
                /\ SummariesOf(f.scan_id) =
                      {SummaryRow(f.scan_id, key, f.summary[key]) : key \in DOMAIN f.summary}

\* both runs returned for org 1, each with a row of its own
C9_Witness ==
    /\ frame["manual"].pc = "returned" /\ frame["tick"].pc = "returned"
    /\ frame["manual"].org = 1 /\ frame["tick"].org = 1
    /\ frame["manual"].rows # <<>> /\ frame["tick"].rows # <<>>
    /\ Len(scan_results) = 2

(***************************************************************************)
(* Properties of a scan read back (SpecBulk).                              *)
(***************************************************************************)
\* C11: the page of a persisted scan shows what run_scan_for_org computed
\* before it wrote: the fetched and matched counts of every source, the
\* warnings in their order, and the set of the matched items' identifiers.
C11_RoundTrip ==
    \A p \in Procs :
        LET f == frame[p]
        IN  (f.pc = "returned" /\ view.kind = "detail" /\ view.pc = "done"
             /\ view.scan.id = f.scan_id) =>
                /\ \A src \in SourceSet :
                      /\ view.scan.fetched[src] = f.stats[src].fetched_total
                      /\ view.scan.matched[src] = f.stats[src].matched
                /\ view.warnings = f.warnings
                /\ {<<view.results[i].source, view.results[i].id>> : i \in DOMAIN view.results}
                      = {<<f.rows[i].source, f.rows[i].id>> : i \in DOMAIN f.rows}

\* the page of a scan of three matched items and a warning shows the
\* counts, the warning and every identifier
C11_Witness ==
    LET f == frame["manual"]
    IN  /\ f.pc = "returned" /\ view.kind = "detail" /\ view.pc = "done"
        /\ view.scan.id = f.scan_id
        /\ Len(f.rows) = 3
        /\ view.warnings = f.warnings /\ Len(view.warnings) = 1
        /\ {view.results[i].id : i \in DOMAIN view.results} = {f.rows[i].id : i \in DOMAIN f.rows}

(***************************************************************************)
(* Properties of the helpers (SpecCalls).                                  *)
(***************************************************************************)
\* the tokens of a text that idea_key counts: the lower-cased letters of
\* letters of length 4 or more that are not stop words, in their order
KeptTokens(text) ==
    LET low == LowerText(text)
        letters == Flatten([i \in 1..Len(low) |-> AlphaRuns(low[i])])
    IN  SelectSeq(letters, LAMBDA w : Len(w) >= 4 /\ w \notin STOPWORDS)

RECURSIVE Leaders(_, _, _)
\* the n first of the tokens in left, the most frequent first and of two
\* equally frequent ones the one that occurs first in words
Leaders(words, left, n) ==
    IF n = 0 \/ left = {} THEN <<>>
    ELSE LET best == CHOOSE w \in left :
                        \A v \in left \ {w} :
                            \/ Count(words, w) > Count(words, v)
                            \/ /\ Count(words, w) = Count(words, v)
                               /\ FirstIndex(words, w) < FirstIndex(words, v)
         IN  <<best>> \o Leaders(words, left \ {best}, n - 1)

\* C13: idea_key returns the at most 6 most frequent distinct tokens of the
\* text, by descending frequency and, among equally frequent ones, in the
\* order of their first occurrence, joined by single spaces; it returns
\* "uncategorized" when the text has no token.
C13_IdeaKeyTopSix ==
    call.fn = "idea_key" =>
        LET words == KeptTokens(call.text)
            top == Leaders(words, Range(words), 6)
        IN  /\ words = <<>> => call.key = "uncategorized"
            /\ words # <<>> =>
                  /\ Len(top) <= 6
                  /\ Len(top) = Min(6, Cardinality(Range(words)))
                  /\ call.key = JoinWith(" ", top)

\* a text of more than six distinct tokens, one of them repeated after all
\* the others were seen and two of them capitalised differently
C13_Witness ==
    /\ call.fn = "idea_key"
    /\ LET words == KeptTokens(call.text)
       IN  /\ Cardinality(Range(words)) >= 7
           /\ \E w \in Range(words) : Count(words, w) = 2 /\ FirstIndex(words, w) > 1
           /\ "Budget" \in Range(call.text)
    /\ call.key # "uncategorized"

(***************************************************************************)
(* Properties of last_run_utc (SpecSchedule).                              *)
(***************************************************************************)
\* the hour the newest committed scan of an organization was written
LastScanHour(org) == MaxOf({fromisoformat(h.created_utc) : h \in ScansOf(org)})

\* C12: when no run is in flight, an organization's last_run_utc is the
\* time of its last scan run that succeeded, whether the scheduler or a
\* manual trigger ran it: empty if it has no scan, and otherwise the hour
\* its newest scan was written.
C12_LastRunIsLastScan ==
    (\A p \in Procs : frame[p].pc = "idle") =>
        \A org \in Orgs :
            IF ScansOf(org) = {} THEN schedules[org].last_run_utc = NULL
            ELSE /\ schedules[org].last_run_utc # NULL
                 /\ fromisoformat(schedules[org].last_run_utc) = LastScanHour(org)

\* settings_post leaves last_run_utc as it was
C12_SettingsKeepLastRun ==
    [][SettingsPost => \A org \in Orgs :
                          schedules'[org].last_run_utc = schedules[org].last_run_utc]_vars

\* the scheduler has stamped org 1 after its run, the settings form has
\* since turned its schedule off, and the stamp is that of its scan
C12_Witness ==
    /\ \A p \in Procs : frame[p].pc = "idle"
    /\ schedules[1].interval_hours = 0
    /\ ScansOf(1) # {}
    /\ schedules[1].last_run_utc # NULL
    /\ fromisoformat(schedules[1].last_run_utc) = LastScanHour(1)

(***************************************************************************)
(* Properties of the helpers (SpecCalls).                                  *)
(***************************************************************************)
\* C14: classifying "I'd pay for an app that tracks my expenses" yields the
\* categories app_request and pay, and the row an adapter builds from the
\* text has willing_to_pay = "yes".
C14_ExampleClassified ==
    (call.fn = "match_groups" /\ call.text = tPlain) =>
        /\ Range(call.groups) = {"app_request", "pay"}
        /\ Len(call.rows) = 1
        /\ call.rows[1].willing_to_pay = "yes"

\* the sentence was classified: no group matched and no row was built
C14_Witness ==
    /\ call.fn = "match_groups"
    /\ call.text = tPlain
    /\ call.groups = <<>>
    /\ call.rows = <<>>

\* the previous scan's row for the key of the row enrich_summary was called with
PrevOf(c) ==
    IF ~c.previous_map.none /\ c.row.idea_key \in DOMAIN c.previous_map.rows
    THEN <<c.previous_map.rows[c.row.idea_key]>>
    ELSE <<>>

\* C15: with an entry for the key in the previous scan, delta_mentions and
\* delta_pay are the current counts minus the previous ones and momentum is
\* Up from +3, Down from -3 and Flat between (5 then 9: +4, Up); without an
\* entry momentum is New and both deltas are None.
C15_DeltasAndMomentum ==
    call.fn = "enrich_summary" =>
        LET prev == PrevOf(call)
            e == call.enriched
        IN  IF prev = <<>>
            THEN e.momentum = "New" /\ e.delta_mentions = <<>> /\ e.delta_pay = <<>>
            ELSE LET d == call.row.mentions - prev[1].mentions
                 IN  /\ e.delta_mentions = <<d>>
                     /\ e.delta_pay = <<call.row.pay_mentions - prev[1].pay_mentions>>
                     /\ d >= 3 => e.momentum = "Up"
                     /\ d <= -3 => e.momentum = "Down"
                     /\ (d > -3 /\ d < 3) => e.momentum = "Flat"
                     /\ (prev[1].mentions = 5 /\ call.row.mentions = 9) =>
                           (e.delta_mentions = <<4>> /\ e.momentum = "Up")

\* 9 mentions after 5: +4 and Up
C15_Witness ==
    /\ call.fn = "enrich_summary"
    /\ PrevOf(call) # <<>>
    /\ PrevOf(call)[1].mentions = 5
    /\ call.row.mentions = 9
    /\ call.enriched.delta_mentions = <<4>>
    /\ call.enriched.momentum = "Up"

\* C17: signal is High when pay_mentions >= 2 or mentions >= 12, otherwise
\* Medium when pay_mentions >= 1 or mentions >= 5, otherwise Low.
C17_SignalThresholds ==
    call.fn = "enrich_summary" =>
        LET mentions == call.row.mentions
            pay_mentions == call.row.pay_mentions
            high == pay_mentions >= 2 \/ mentions >= 12
            medium == pay_mentions >= 1 \/ mentions >= 5
        IN  /\ high => call.enriched.signal = "High"
            /\ (~high /\ medium) => call.enriched.signal = "Medium"
            /\ (~high /\ ~medium) => call.enriched.signal = "Low"

\* 12 mentions, none of them paying: High
C17_Witness ==
    /\ call.fn = "enrich_summary"
    /\ call.row.mentions = 12
    /\ call.row.pay_mentions = 0
    /\ call.enriched.signal = "High"

\* the rows of a summary call with a key
RowsWith(key) == {i \in DOMAIN call.rows : call.rows[i].idea_key = key}

\* C18: two matched items of one answer with the same idea key, one of them
\* with the pay category, make one summary row with mentions 2 and
\* pay_mentions 1, and its pay_ratio is 50.0; pay_ratio is 100 times
\* pay_mentions / mentions to the nearest tenth, and 0 when mentions is 0.
C18_PayRatio ==
    /\ call.fn = "summary" =>
          \A key \in {row.idea_key : row \in Range(call.rows)} :
              (/\ Cardinality(RowsWith(key)) = 2
               /\ Cardinality({i \in RowsWith(key) : call.rows[i].willing_to_pay = "yes"}) = 1) =>
                  \E e \in call.enriched :
                      /\ e.idea_key = key /\ e.mentions = 2 /\ e.pay_mentions = 1
                      /\ e.pay_ratio = 500
                      /\ \A g \in call.enriched : g.idea_key = key => g = e
    /\ call.fn \in {"summary", "enrich_summary"} =>
          \A e \in (IF call.fn = "summary" THEN call.enriched ELSE {call.enriched}) :
              IF e.mentions = 0 THEN e.pay_ratio = 0
              ELSE LET off == e.pay_ratio * e.mentions - 1000 * e.pay_mentions
                   IN  2 * off <= e.mentions /\ -2 * off <= e.mentions

\* a paying post and a plain request about "budget tracker" in one answer
C18_Witness ==
    /\ call.fn = "summary"
    /\ Len(call.rows) = 2
    /\ call.rows[1].idea_key = call.rows[2].idea_key
    /\ call.rows[1].willing_to_pay = "yes"
    /\ call.rows[2].willing_to_pay = "no"
    /\ \E e \in call.enriched : e.mentions = 2 /\ e.pay_mentions = 1 /\ e.pay_ratio = 500

(***************************************************************************)
(* Properties of the merge and of the gates (SpecScan).                    *)
(***************************************************************************)
\* the sources in the order run_scan_for_org runs their adapters
SourceOrder == <<"Reddit", "X", "Bluesky", "Mastodon">>

\* the summaries of the adapters that have a key
PartsWith(f, key) == {src \in SourceSet : key \in DOMAIN f.got[src].summary}

\* the first row with a key
FirstWith(rows, key) ==
    rows[CHOOSE i \in DOMAIN rows :
            /\ rows[i].idea_key = key
            /\ \A j \in 1..(i - 1) : rows[j].idea_key # key]

\* C16: once the adapters have run, the rows of the scan are the rows of
\* the adapters that returned, Reddit's first, then X's, Bluesky's and
\* Mastodon's, each in the adapter's order; the summary of a key has the
\* sums of the adapters' mentions and pay_mentions, the unions of their
\* sources and buckets, and the title and URL of the first row with the
\* key; and the rows are written to scan_results in that order.
C16_MergeInOrder ==
    LET f == frame["manual"]
    IN  f.pc \in WritePcs \cup {"returned"} =>
            /\ f.rows = Flatten([i \in 1..4 |-> f.got[SourceOrder[i]].rows])
            /\ DOMAIN f.summary = UNION {DOMAIN f.got[src].summary : src \in SourceSet}
            /\ \A key \in DOMAIN f.summary :
                  LET parts == [src \in SourceSet |->
                                   IF key \in DOMAIN f.got[src].summary
                                   THEN f.got[src].summary[key] ELSE new_summary_bucket]
                  IN  /\ f.summary[key].mentions = SumOver([src \in SourceSet |-> parts[src].mentions], SourceSet)
                      /\ f.summary[key].pay_mentions =
                            SumOver([src \in SourceSet |-> parts[src].pay_mentions], SourceSet)
                      /\ f.summary[key].sources = UNION {parts[src].sources : src \in SourceSet}
                      /\ f.summary[key].subreddits = UNION {parts[src].subreddits : src \in SourceSet}
                      /\ f.summary[key].sample_title = FirstWith(f.rows, key).title
                      /\ f.summary[key].sample_url = FirstWith(f.rows, key).permalink
            /\ f.pc = "returned" =>
                  ResultsOf(f.scan_id) = [i \in 1..Len(f.rows) |-> ResultRow(f.scan_id, f.rows[i])]

\* two adapters returned rows with one key, and the scan's summary has the
\* sample of the first
C16_Witness ==
    LET f == frame["manual"]
    IN  /\ f.pc = "returned"
        /\ \E a, b \in 1..4 :
              /\ a < b
              /\ f.got[SourceOrder[a]].rows # <<>>
              /\ f.got[SourceOrder[b]].rows # <<>>
              /\ \E key \in DOMAIN f.summary :
                    /\ PartsWith(f, key) = {SourceOrder[a], SourceOrder[b]}
                    /\ f.summary[key].mentions >= 2
                    /\ f.summary[key].sample_url = f.got[SourceOrder[a]].rows[1].permalink
                    /\ f.summary[key].sample_url # f.got[SourceOrder[b]].rows[1].permalink

\* the sources whose gate a run has passed when it is at pc
Decided(pc) ==
    CASE pc = "x" -> {"Reddit"}
      [] pc = "bsky" -> {"Reddit", "X"}
      [] pc = "mastodon" -> {"Reddit", "X", "Bluesky"}
      [] pc \in WritePcs \cup {"returned"} -> SourceSet
      [] OTHER -> {}

\* a comma separated column has an entry that is not blank
NonBlank(column) == \E i \in DOMAIN column : column[i] \notin {"", " "}

\* what the claim asks of a configuration for a source's adapter to be called
Wanted(config, src) ==
    CASE src = "Reddit" -> NonBlank(config.subreddits)
      [] src = "X" -> config.x_enabled /\ NonBlank(config.x_queries)
      [] src = "Bluesky" -> config.bsky_enabled /\ NonBlank(config.bsky_queries)
      [] OTHER -> config.mastodon_enabled /\ NonBlank(config.mastodon_queries)

\* C19: run_scan_for_org calls the Reddit adapter exactly when a subreddit
\* of the configuration is not blank, and the X, Bluesky and Mastodon
\* adapters exactly when the source's flag is set and one of its queries is
\* not blank; a source whose adapter is not called has no row, no warning
\* and counts of 0, in the run and in the scan it writes.
C19_Gates ==
    LET f == frame["manual"]
    IN  \A src \in Decided(f.pc) :
            /\ f.outcome[src] # "skipped" <=> Wanted(f.config, src)
            /\ f.outcome[src] = "skipped" =>
                  /\ RowsFrom(f.rows, src) = <<>>
                  /\ \A i \in 1..Len(f.warnings) : f.warnings[i].words[1] # src
                  /\ f.stats[src] = ZeroStats
                  /\ \A key \in DOMAIN f.summary : src \notin f.summary[key].sources
                  /\ f.pc = "returned" =>
                        /\ RowsFrom(ResultsOf(f.scan_id), src) = <<>>
                        /\ ScanRow(f.scan_id).fetched[src] = 0
                        /\ ScanRow(f.scan_id).matched[src] = 0

\* a scan returned for which a source with its flag set was not called,
\* its list being blank, while another source was called
C19_Witness ==
    LET f == frame["manual"]
    IN  /\ f.pc = "returned"
        /\ f.config.bsky_enabled
        /\ f.outcome["Bluesky"] = "skipped"
        /\ \E src \in SourceSet : f.outcome[src] = "returned" /\ f.stats[src].matched > 0
        /\ Persisted(f.scan_id)

(***************************************************************************)
(* Properties of the X pagination (SpecFetch).                             *)
(***************************************************************************)
Fetching == call.fn = "fetch_recent_tweets"

\* C20: whatever the provider answers, a call of fetch_recent_tweets ends:
\* it returns or raises.
C20_Terminates == Fetching ~> (Fetching /\ call.pc \in {"returned", "raised"})

\* with a limit that is not negative, a call that returned has at most
\* limit tweets
C20_AtMostLimit ==
    (Fetching /\ call.pc = "returned" /\ call.limit >= 0) => Len(call.result) <= call.limit

\* a call returned limit tweets it had collected from more than one page
C20_Witness ==
    /\ Fetching
    /\ call.pc = "returned"
    /\ call.limit = MaxLimit
    /\ call.next_token # NULL
    /\ Len(call.collected) > call.limit
    /\ Len(call.result) = call.limit

(***************************************************************************)
(* Properties of the adapters' filters (SpecScan).                         *)
(***************************************************************************)
\* the lookback window of a source is set: Mastodon's cutoff is None when
\* mastodon_since_days is 0
Windowed(config, src) == src = "Mastodon" => config.mastodon_since_days > 0

\* C21: no row an adapter returned is of an item created before the
\* source's cutoff.
C21_NoStaleRows ==
    LET f == frame["manual"]
    IN  f.pc \notin {"idle", "raised"} =>
        \A src \in SourceSet :
            Windowed(f.config, src) =>
                \A i \in 1..Len(f.got[src].rows) : f.got[src].rows[i].fresh

\* Mastodon, with a window of 7 days, returned a row, and its rows are of
\* items inside the window
C21_Witness ==
    LET f == frame["manual"]
    IN  /\ f.pc = "returned"
        /\ f.config.mastodon_since_days > 0
        /\ f.got["Mastodon"].rows # <<>>
        /\ \A i \in 1..Len(f.got["Mastodon"].rows) : f.got["Mastodon"].rows[i].fresh

\* the kind of error an adapter's exception names
ErrorKind(exc) ==
    CASE exc.tag = "X_CREDITS_DEPLETED" -> "credits"
      [] exc.tag \in {"X_AUTH_ERROR", "BSKY_AUTH_ERROR", "MASTODON_AUTH_ERROR"} -> "unauthorized"
      [] exc.tag \in {"BSKY_RATE_LIMIT", "MASTODON_RATE_LIMIT"} -> "rate_limited"
      [] exc.tag = "BSKY_FORBIDDEN" -> "forbidden"
      [] OTHER -> "generic"

\* the kind of error a warning of run_scan_for_org tells the user of
WarningKind(warning) ==
    LET words == Tail(warning.words)
    IN  CASE words = <<"credits", "depleted.">> -> "credits"
          [] words \in {<<"authentication", "failed.">>, <<"auth", "failed.">>} -> "unauthorized"
          [] words = <<"rate", "limit", "reached.">> -> "rate_limited"
          [] words = <<"request", "blocked", "(403).">> -> "forbidden"
          [] OTHER -> "generic"

\* the kind the taxonomy gives an answer
KindOf(answer) ==
    IF answer.credits THEN "credits"
    ELSE CASE answer.status = 429 -> "rate_limited"
           [] answer.status = 401 -> "unauthorized"
           [] answer.status = 403 -> "forbidden"
           [] OTHER -> "generic"

\* C22: for X, Bluesky and Mastodon, a refused request raises the error of
\* the kind of its status (429 rate-limited, 401 unauthorized, 403
\* forbidden, an X credits payload credits-depleted, any other status
\* generic), and the warning of run_scan_for_org is of that kind.
C22_ErrorTaxonomy ==
    (call.fn = "warning" /\ call.token) =>
        /\ ErrorKind(call.exc) = KindOf(call.answer)
        /\ WarningKind(call.warning) = KindOf(call.answer)

\* Bluesky answered 429: BSKY_RATE_LIMIT and the rate limit warning
C22_Witness ==
    /\ call.fn = "warning"
    /\ call.source = "Bluesky"
    /\ call.answer.status = 429
    /\ ErrorKind(call.exc) = "rate_limited"
    /\ WarningKind(call.warning) = "rate_limited"

\* C29: run_scan_for_org warns of a failed X authentication only when the
\* provider answered 401; after any other status without a credits
\* payload, and without X_BEARER_TOKEN, the warning is "X scan skipped",
\* whatever the text of the response.
C29_AuthWarningOnly401 ==
    (call.fn = "warning" /\ call.source = "X") =>
        /\ call.warning.words = <<"X", "authentication", "failed.">> =>
              (call.token /\ call.answer.status = 401)
        /\ (~call.token \/ (call.answer.status # 401 /\ ~call.answer.credits)) =>
              call.warning.words = <<"X", "scan", "skipped:">>

\* the provider answered 401 and the warning is that of a failed authentication
C29_Witness ==
    /\ call.fn = "warning"
    /\ call.source = "X"
    /\ call.token
    /\ call.answer.status = 401
    /\ ~call.answer.credits
    /\ call.warning.words = <<"X", "authentication", "failed.">>

\* the places of the buckets of a text that count for a persona
PlacesOf(text, persona) ==
    {i \in DOMAIN text : text[i] \notin {"", " "} /\ PersonaOf(text[i]) = persona}

\* C23: infer_persona returns a persona no other has more buckets than,
\* and of those with as many the one whose first bucket comes first; a text
\* without a bucket gives "General".
C23_PersonaByCount ==
    call.fn = "infer_persona" =>
        LET personas == {PersonaOf(call.text[i]) :
                            i \in {j \in DOMAIN call.text : call.text[j] \notin {"", " "}}}
            n(p) == Cardinality(PlacesOf(call.text, p))
            first(p) == CHOOSE i \in PlacesOf(call.text, p) : \A j \in PlacesOf(call.text, p) : i <= j
        IN  IF personas = {} THEN call.persona = "General"
            ELSE /\ call.persona \in personas
                 /\ \A q \in personas \ {call.persona} :
                       \/ n(q) < n(call.persona)
                       \/ n(q) = n(call.persona) /\ first(call.persona) < first(q)

\* two personas with one bucket each after a blank: the first one wins
C23_Witness ==
    /\ call.fn = "infer_persona"
    /\ call.text = <<" ", "bsky:app for", "Entrepreneur">>
    /\ call.persona = "Bluesky audience"

\* the texts of the model by their groups
HasAppRequest(text) == text \in {tApp, tPay \o tApp}

\* C24: with require_app_request set, every row scan_subreddits returns,
\* of a submission or of a comment, is of an item with the app_request
\* group; the items with pain or pay alone have no row, and neither the
\* matched count nor the mentions of the summary count them.
C24_StrictRows ==
    (call.fn = "scan_subreddits" /\ call.require_app_request) =>
        LET rows == call.result.rows
            listing == call.listing
            kept == {i \in DOMAIN listing :
                        /\ HasAppRequest(listing[i].text)
                        /\ \E j \in 1..i : listing[j].kind = "submission"}
        IN  /\ \A i \in DOMAIN rows :
                  rows[i].match_groups \in {"app_request", "app_request;pay"}
            /\ {rows[i].id : i \in DOMAIN rows} = {listing[i].id : i \in kept}
            /\ Len(rows) = Cardinality(kept)
            /\ call.result.stats.matched = Cardinality(kept)
            /\ SumOver([key \in DOMAIN call.result.summary |-> call.result.summary[key].mentions],
                       DOMAIN call.result.summary) = Cardinality(kept)

\* a submission that asks for an app with a comment that would pay and a
\* comment that asks and would pay: the first comment has no row
C24_Witness ==
    /\ call.fn = "scan_subreddits"
    /\ call.require_app_request
    /\ Len(call.listing) = 3
    /\ call.listing[1].kind = "submission" /\ call.listing[1].text = tApp
    /\ call.listing[2].kind = "comment" /\ call.listing[2].text = tPay
    /\ call.listing[3].kind = "comment" /\ call.listing[3].text = tPay \o tApp
    /\ Len(call.result.rows) = 2
    /\ call.result.rows[2].type = "comment"
    /\ call.result.rows[2].match_groups = "app_request;pay"
    /\ call.result.stats.fetched_total = 3

(***************************************************************************)
(* Properties of a source that fails part way (SpecScan).                  *)
(***************************************************************************)
\* the sources of the rows of a persisted scan's summaries
SummarySources(id) == UNION {row.sources : row \in SummariesOf(id)}

\* C25: of a source whose adapter raised, whatever the provider had
\* answered before, the run keeps no row, no part of the summary, no
\* rate-limit metadata and counts of 0, and so does the scan it writes.
C25_AllOrNothing ==
    LET f == frame["manual"]
    IN  \A src \in RaisedIn(f) :
            /\ RowsFrom(f.rows, src) = <<>>
            /\ \A key \in DOMAIN f.summary : src \notin f.summary[key].sources
            /\ f.meta[src] = <<>>
            /\ f.stats[src] = ZeroStats
            /\ f.pc = "returned" =>
                  /\ Persisted(f.scan_id)
                  /\ RowsFrom(ResultsOf(f.scan_id), src) = <<>>
                  /\ src \notin SummarySources(f.scan_id)
                  /\ ScanRow(f.scan_id).rate_limit[src] = NULL
                  /\ ScanRow(f.scan_id).fetched[src] = 0
                  /\ ScanRow(f.scan_id).matched[src] = 0

\* X answered its first query with a tweet that matches a group and
\* refused the second; the scan is written without anything of X
C25_Witness ==
    LET f == frame["manual"]
    IN  /\ f.pc = "returned"
        /\ f.outcome["X"] = "raised"
        /\ f.heard["X"].answers = 2
        /\ f.heard["X"].matching > 0
        /\ Persisted(f.scan_id)
        /\ ScanRow(f.scan_id).fetched["X"] = 0

\* C26: in every persisted scan, a source's matched count is the number of
\* the scan's rows of that source, and its fetched count is not below it.
C26_CountsMatchRows ==
    \A h \in Range(scans) :
        \A src \in SourceSet :
            /\ h.matched[src] = Len(RowsFrom(ResultsOf(h.id), src))
            /\ h.fetched[src] >= h.matched[src]

\* a scan with a source that fetched two items and matched one of them
C26_Witness ==
    \E h \in Range(scans) :
        \E src \in SourceSet :
            /\ h.fetched[src] = 2
            /\ h.matched[src] = 1
            /\ Len(RowsFrom(ResultsOf(h.id), src)) = 1

(***************************************************************************)
(* Properties of the scheduler's spacing (Spec).                           *)
(***************************************************************************)
\* the runs of the scheduler that returned: their places in its history
Succeeded(org) ==
    {i \in DOMAIN TickLog :
        TickLog[i].org_id = org /\ TickLog[i].result \in {"updated", "update_raised"}}

\* C27: two runs of the scheduler for one organization that both returned
\* were started at least interval_hours apart.
C27_ScheduledRunsApart ==
    \A org \in Orgs :
        \A i, j \in Succeeded(org) :
            i < j => TickLog[j].now - TickLog[i].now >= TickLog[j].interval_hours

\* org 1 was scanned, stamped, and scanned again 24 hours later
C27_Witness ==
    \E i, j \in Succeeded(1) :
        /\ i < j
        /\ TickLog[i].result = "updated"
        /\ TickLog[j].last_run_utc = isoformat(TickLog[i].now, 0)
        /\ TickLog[j].now - TickLog[i].now = 24

(***************************************************************************)
(* Properties of the sentinel key (SpecCalls).                             *)
(***************************************************************************)
\* the tokens of a text that survive idea_key's filtering
KeptWords(text) == SelectSeq(FindWords(text), LAMBDA w : w \notin STOPWORDS)

\* the statements of the sentinel branch
SentinelBranch(c) ==
    /\ Len(c.problem_statement) = 2
    /\ Len(c.mvp_angle) = 3

\* C28: idea_key returns "uncategorized" only for a text without a surviving
\* token, so build_problem_statement and build_mvp_angle take their sentinel
\* branch only for such a text.
C28_SentinelOnlyKeyless ==
    call.fn = "build_problem_statement" =>
        /\ call.key = "uncategorized" => KeptWords(call.text) = <<>>
        /\ SentinelBranch(call) => KeptWords(call.text) = <<>>

\* a text of a stop word and a short token has no key and gets the sentinel
\* branch; a text with another kept word gets the branch of its key
C28_Witness ==
    /\ call.fn = "build_problem_statement"
    /\ call.text = <<"this", "app\\b">>
    /\ call.key = "uncategorized"
    /\ SentinelBranch(call)

(***************************************************************************)
(* Properties of the lazy creation of the defaults (SpecEnsure).           *)
(***************************************************************************)
\* both requests were for the organization, which had neither row, and
\* both are over
BothEnsured(org) ==
    /\ call.before.scan_configs[org] = <<>>
    /\ call.before.schedules[org] = <<>>
    /\ \A c \in Callers :
          call.callers[c].org_id = org /\ call.callers[c].pc \in {"returned", "raised"}

\* C30: two calls of ensure_org_config at once for an organization without
\* a configuration both return a configuration, none raises, and the
\* organization has one configuration and one schedule of interval 0
\* without a last run.
C30_ConcurrentEnsureSafe ==
    Ensuring =>
        \A org \in Orgs :
            BothEnsured(org) =>
                /\ \A c \in Callers :
                      call.callers[c].pc = "returned" /\ call.callers[c].result = <<DefaultConfig>>
                /\ call.scan_configs[org] = <<DefaultConfig>>
                /\ call.schedules[org] = <<DefaultSchedule>>

\* one request read the tables only after the other had written both rows:
\* both returned the configuration
C30_Witness ==
    /\ Ensuring
    /\ BothEnsured(1)
    /\ \A c \in Callers : call.callers[c].pc = "returned" /\ call.callers[c].result = <<DefaultConfig>>
    /\ call.scan_configs[1] = <<DefaultConfig>>
    /\ call.schedules[1] = <<DefaultSchedule>>

====
